---- MODULE Spec2Model ----
(***************************************************************************)
(* Device connection and command dispatch layer of smart-tv-remote.        *)
(*                                                                         *)
(* Two transports are modelled, each under its own specification:          *)
(*   Spec / FairSpec : the bridge transport, hook useAdbConnection         *)
(*                     (src/unnamed/part_002)                              *)
(*   WireSpec        : the wire transport, AdbConnection and               *)
(*                     AdbConnectionManager (src/unnamed/part_005) with    *)
(*                     the dispatcher useDirectAdb                         *)
(*                     (src/src/hooks/useDirectAdb.ts)                     *)
(* JavaScript runs handlers to completion on one thread: every action      *)
(* below is one handler, or the part of an async function between two      *)
(* awaits.                                                                 *)
(***************************************************************************)
EXTENDS Naturals, Integers, Sequences, FiniteSets, TLC

\* ------------------------------------------------------------------ bounds
MaxSock == 2
MaxReq == 2
MaxCmd == 2
MaxBridgeDev == 1
MaxDev == 2
MaxConn == 2
MaxTcp == 2
MaxCall == 2
MaxOp == 2
MaxFrames == 2
MaxShellFrames == 4
MaxPageCmd == 3
MaxPayloadLen == 2
MaxInputFrames == 2
MaxTextLen == 2
MaxLifeCmd == 5

\* ------------------------------------------------------- program constants
ADB_VERSION == 16777216
ADB_MAX_PAYLOAD == 4096
ADB_PORT == 5555
ADB_HEADER_SIZE == 24
A_CNXN == 1314410051
A_OPEN == 1313165391
A_OKAY == 1497451343
A_CLSE == 1163086915
A_WRTE == 1163154007
A_AUTH == 1213486401

\* =====================================================================
\* BRIDGE TRANSPORT (src/unnamed/part_002)
\* =====================================================================
VARIABLES
  phase,                 \* "init" | "mounted" | "unmounted" (useEffect mount / cleanup)
  wsRef,                 \* wsRef.current: a channel, or 0 for null
  sockState,             \* per channel: "free" | "connecting" | "open" | "closing" | "errored"
  rtimers,               \* armed reconnect timers (handles)
  reconnectTimeoutRef,   \* reconnectTimeoutRef.current: last handle, 0 for undefined
  state,                 \* ConnectionState {isConnected, device, isConnecting, error}
  isScanning,
  discoveredDevices,     \* "empty" | "list": the devices of the last scan_result
  apps,                  \* "empty" | "list": the apps of the last apps message
  screenshotResolveRef,  \* pending screenshot request, 0 for null
  wolResolveRef,         \* pending wake-on-LAN request, 0 for null
  req,                   \* per request: kind, its timeout timer, the values its resolver got
  cmds,                  \* every command issued through sendCommand, in issue order
  wire                   \* what was transmitted on the channel, in order

bridgeVars == <<phase, wsRef, sockState, rtimers, reconnectTimeoutRef, state,
                isScanning, discoveredDevices, apps, screenshotResolveRef, wolResolveRef,
                req, cmds, wire>>

Socks == 1..MaxSock
Reqs == 1..MaxReq
BridgeDevices == 1..MaxBridgeDev

NoError == "none"
ErrBridgeDown == "Cannot connect to ADB bridge. Make sure the bridge server is running."
ErrNotConnected == "Not connected to ADB bridge"
ErrServer == "server error message"

\* Inbound tagged messages, plus a frame that is no JSON and a frame of an
\* unknown type.
ScreenshotMsgs ==
  { [type |-> "screenshot", success |-> TRUE, data |-> "png"],
    [type |-> "screenshot", success |-> TRUE, data |-> "notbase64"],
    [type |-> "screenshot", success |-> TRUE, data |-> ""],
    [type |-> "screenshot", success |-> FALSE, data |-> ""] }

Messages ==
  ScreenshotMsgs
  \cup { [type |-> "wol_sent", success |-> b] : b \in BOOLEAN }
  \cup { [type |-> "connected", device |-> d] : d \in BridgeDevices }
  \cup { [type |-> t] : t \in {"scan_result", "disconnected", "apps", "error",
                               "unparseable", "unknown"} }

\* readyState === WebSocket.OPEN
IsOpen(s) == s # 0 /\ sockState[s] = "open"

BridgeInit ==
  /\ phase = "init"
  /\ wsRef = 0
  /\ sockState = [s \in Socks |-> "free"]
  /\ rtimers = {}
  /\ reconnectTimeoutRef = 0
  /\ state = [isConnected |-> FALSE, device |-> 0, isConnecting |-> FALSE, error |-> NoError]
  /\ isScanning = FALSE
  /\ discoveredDevices = "empty"
  /\ apps = "empty"
  /\ screenshotResolveRef = 0
  /\ wolResolveRef = 0
  /\ req = [r \in Reqs |-> [kind |-> "none", timer |-> FALSE, results |-> <<>>]]
  /\ cmds = <<>>
  /\ wire = <<>>

\* ------------------------------------------------------------ the channel
LeastFree(S) == CHOOSE x \in S : \A y \in S : x <= y

FreeSocks == { s \in Socks : sockState[s] = "free" }
FreeHandles == { h \in Socks : h \notin rtimers }

\* connectWebSocket with a plausible slip: no test for an open channel.
connectWebSocketNoGuard ==
  /\ FreeSocks # {}
  /\ sockState' = [sockState EXCEPT ![LeastFree(FreeSocks)] = "connecting"]
  /\ wsRef' = LeastFree(FreeSocks)

\* connectWebSocket: skipped when a channel is open, else a new WebSocket
\* replaces wsRef.current.
connectWebSocket ==
  IF IsOpen(wsRef)
  THEN UNCHANGED <<wsRef, sockState>>
  ELSE /\ FreeSocks # {}
       /\ sockState' = [sockState EXCEPT ![LeastFree(FreeSocks)] = "connecting"]
       /\ wsRef' = LeastFree(FreeSocks)

\* useEffect body on mount.
Mount ==
  /\ phase = "init"
  /\ phase' = "mounted"
  /\ connectWebSocket
  /\ UNCHANGED <<rtimers, reconnectTimeoutRef, state, isScanning, discoveredDevices, apps,
                 screenshotResolveRef, wolResolveRef, req, cmds, wire>>

\* useEffect cleanup: clearTimeout(reconnectTimeoutRef.current); wsRef.current?.close().
Unmount ==
  /\ phase = "mounted"
  /\ phase' = "unmounted"
  /\ rtimers' = IF reconnectTimeoutRef # 0 THEN rtimers \ {reconnectTimeoutRef} ELSE rtimers
  /\ sockState' = IF wsRef # 0 /\ sockState[wsRef] \in {"connecting", "open"}
                  THEN [sockState EXCEPT ![wsRef] = "closing"]
                  ELSE sockState
  /\ UNCHANGED <<wsRef, reconnectTimeoutRef, state, isScanning, discoveredDevices, apps,
                 screenshotResolveRef, wolResolveRef, req, cmds, wire>>

\* ws.onopen
OnOpen(s) ==
  /\ sockState[s] = "connecting"
  /\ sockState' = [sockState EXCEPT ![s] = "open"]
  /\ state' = [state EXCEPT !.error = NoError]
  /\ UNCHANGED <<phase, wsRef, rtimers, reconnectTimeoutRef, isScanning, discoveredDevices,
                 apps, screenshotResolveRef, wolResolveRef, req, cmds, wire>>

\* ws.onerror: the connection attempt failed, or an open channel broke; the
\* close event follows.
OnError(s) ==
  /\ sockState[s] \in {"connecting", "open"}
  /\ sockState' = [sockState EXCEPT ![s] = "errored"]
  /\ state' = [state EXCEPT !.error = ErrBridgeDown]
  /\ UNCHANGED <<phase, wsRef, rtimers, reconnectTimeoutRef, isScanning, discoveredDevices,
                 apps, screenshotResolveRef, wolResolveRef, req, cmds, wire>>

\* ws.onclose with a plausible slip: the reference is dropped, no reconnect
\* is scheduled.
OnCloseNoReconnect(s) ==
  /\ sockState[s] \in {"open", "closing", "errored"}
  /\ sockState' = [sockState EXCEPT ![s] = "free"]
  /\ wsRef' = 0
  /\ UNCHANGED <<phase, rtimers, reconnectTimeoutRef, state, isScanning, discoveredDevices,
                 apps, screenshotResolveRef, wolResolveRef, req, cmds, wire>>

\* ws.onclose: after a failure, a close by the peer, or a local close().
OnClose(s) ==
  /\ sockState[s] \in {"open", "closing", "errored"}
  /\ FreeHandles # {}
  /\ sockState' = [sockState EXCEPT ![s] = "free"]
  /\ wsRef' = 0
  /\ rtimers' = rtimers \cup {LeastFree(FreeHandles)}
  /\ reconnectTimeoutRef' = LeastFree(FreeHandles)
  /\ UNCHANGED <<phase, state, isScanning, discoveredDevices, apps,
                 screenshotResolveRef, wolResolveRef, req, cmds, wire>>

\* The 3-second reconnect timer fires: connectWebSocket.
ReconnectTimerFire(h) ==
  /\ h \in rtimers
  /\ rtimers' = rtimers \ {h}
  /\ connectWebSocket
  /\ UNCHANGED <<phase, reconnectTimeoutRef, state, isScanning, discoveredDevices, apps,
                 screenshotResolveRef, wolResolveRef, req, cmds, wire>>

\* ------------------------------------------------------- inbound messages
\* Invoking the resolver of request r with value v; `by` notes the place of
\* the invocation: "response", "error", "unsent" or "timeout".
Invoke(rq, r, v, by) == [rq EXCEPT ![r].results = Append(@, [value |-> v, by |-> by])]

\* case 'screenshot': the pending resolver, if any, gets the blob URL or null
\* and the slot is emptied. atob throws on data that is no base64: the
\* exception leaves handleBridgeMessage before the resolver is reached.
HandleScreenshot(m) ==
  /\ IF screenshotResolveRef # 0 /\ ~(m.success /\ m.data = "notbase64")
     THEN /\ req' = Invoke(req, screenshotResolveRef,
                           IF m.success /\ m.data # "" THEN "url" ELSE "null",
                           "response")
          /\ screenshotResolveRef' = 0
     ELSE UNCHANGED <<req, screenshotResolveRef>>
  /\ UNCHANGED <<state, isScanning, discoveredDevices, apps, wolResolveRef>>

\* case 'wol_sent'
HandleWolSent(m) ==
  /\ IF wolResolveRef # 0
     THEN /\ req' = Invoke(req, wolResolveRef, IF m.success THEN "true" ELSE "false",
                           "response")
          /\ wolResolveRef' = 0
     ELSE UNCHANGED <<req, wolResolveRef>>
  /\ UNCHANGED <<state, isScanning, discoveredDevices, apps, screenshotResolveRef>>

\* case 'error' with a plausible slip: the wake-on-LAN slot is left alone.
HandleErrorScreenshotOnly ==
  /\ state' = [state EXCEPT !.error = ErrServer, !.isConnecting = FALSE]
  /\ req' = IF screenshotResolveRef # 0
            THEN Invoke(req, screenshotResolveRef, "null", "error") ELSE req
  /\ screenshotResolveRef' = 0
  /\ UNCHANGED <<isScanning, discoveredDevices, apps, wolResolveRef>>

\* case 'error': error text set, isConnecting cleared, both slots failed.
HandleError ==
  /\ state' = [state EXCEPT !.error = ErrServer, !.isConnecting = FALSE]
  /\ req' = LET r1 == IF screenshotResolveRef # 0
                      THEN Invoke(req, screenshotResolveRef, "null", "error") ELSE req
            IN IF wolResolveRef # 0
               THEN Invoke(r1, wolResolveRef, "false", "error") ELSE r1
  /\ screenshotResolveRef' = 0
  /\ wolResolveRef' = 0
  /\ UNCHANGED <<isScanning, discoveredDevices, apps>>

\* handleBridgeMessage: the switch on data.type.
handleBridgeMessage(m) ==
  CASE m.type = "scan_result" ->
         /\ discoveredDevices' = "list"
         /\ isScanning' = FALSE
         /\ UNCHANGED <<state, apps, screenshotResolveRef, wolResolveRef, req>>
    [] m.type = "connected" ->
         /\ state' = [state EXCEPT !.isConnected = TRUE, !.isConnecting = FALSE,
                                   !.device = m.device, !.error = NoError]
         /\ UNCHANGED <<isScanning, discoveredDevices, apps, screenshotResolveRef,
                        wolResolveRef, req>>
    [] m.type = "disconnected" ->
         /\ state' = [state EXCEPT !.isConnected = FALSE, !.device = 0]
         /\ apps' = "empty"
         /\ UNCHANGED <<isScanning, discoveredDevices, screenshotResolveRef,
                        wolResolveRef, req>>
    [] m.type = "apps" ->
         /\ apps' = "list"
         /\ UNCHANGED <<state, isScanning, discoveredDevices, screenshotResolveRef,
                        wolResolveRef, req>>
    [] m.type = "screenshot" -> HandleScreenshot(m)
    [] m.type = "wol_sent" -> HandleWolSent(m)
    [] m.type = "error" -> HandleError
    [] OTHER ->
         UNCHANGED <<state, isScanning, discoveredDevices, apps, screenshotResolveRef,
                     wolResolveRef, req>>

\* ws.onmessage with a plausible slip: a frame that does not parse makes the
\* handler drop its channel reference.
OnMessageDropsChannel(s, m) ==
  /\ sockState[s] \in {"open", "closing"}
  /\ IF m.type = "unparseable"
     THEN UNCHANGED <<state, isScanning, discoveredDevices, apps, screenshotResolveRef,
                      wolResolveRef, req>>
     ELSE handleBridgeMessage(m)
  /\ wsRef' = IF m.type = "unparseable" THEN 0 ELSE wsRef
  /\ UNCHANGED <<phase, sockState, rtimers, reconnectTimeoutRef, cmds, wire>>

\* ws.onmessage of channel s for a message m of the bridge process:
\* JSON.parse, then handleBridgeMessage; whatever is thrown is caught and
\* logged. Message events reach the handler until the channel's close event.
OnMessage(s, m) ==
  /\ sockState[s] \in {"open", "closing"}
  /\ IF m.type = "unparseable"
     THEN UNCHANGED <<state, isScanning, discoveredDevices, apps, screenshotResolveRef,
                      wolResolveRef, req>>
     ELSE handleBridgeMessage(m)
  /\ UNCHANGED <<phase, wsRef, sockState, rtimers, reconnectTimeoutRef, cmds, wire>>

\* ------------------------------------------------------------- commands
\* sendCommand with the channel test of a plausible slip: any channel object
\* counts, open or not.
SendCommandAnyChannel(type, s) ==
  /\ cmds' = Append(cmds, [open |-> IsOpen(wsRef), ret |-> wsRef # 0])
  /\ wire' = IF wsRef # 0
             THEN Append(wire, [cmd |-> Len(cmds) + 1, type |-> type]) ELSE wire
  /\ state' = IF wsRef # 0 THEN s ELSE [s EXCEPT !.error = ErrNotConnected]

\* sendCommand(command), called with the connection state s the caller has
\* set so far: transmitted when the channel is open, else dropped with the
\* error state set. cmds records the call: whether the channel was open, and
\* what sendCommand returned.
sendCommand(type, s) ==
  /\ cmds' = Append(cmds, [open |-> IsOpen(wsRef), ret |-> IsOpen(wsRef)])
  /\ wire' = IF IsOpen(wsRef)
             THEN Append(wire, [cmd |-> Len(cmds) + 1, type |-> type]) ELSE wire
  /\ state' = IF IsOpen(wsRef) THEN s ELSE [s EXCEPT !.error = ErrNotConnected]

\* The hook's functions are called while the component is mounted.
CanIssue == phase = "mounted"

SimpleTypes == {"key", "text", "cursor", "tap", "scroll", "get_apps", "launch", "power_off"}

\* sendKey, sendText, moveCursor, tap, scroll, fetchApps, launchApp, powerOff
SimpleCommand(t) ==
  /\ CanIssue
  /\ sendCommand(t, state)
  /\ UNCHANGED <<phase, wsRef, sockState, rtimers, reconnectTimeoutRef, isScanning,
                 discoveredDevices, apps, screenshotResolveRef, wolResolveRef, req>>

scanNetwork ==
  /\ CanIssue
  /\ isScanning' = TRUE
  /\ discoveredDevices' = "empty"
  /\ sendCommand("scan", state)
  /\ UNCHANGED <<phase, wsRef, sockState, rtimers, reconnectTimeoutRef, apps,
                 screenshotResolveRef, wolResolveRef, req>>

connect(d) ==
  /\ CanIssue
  /\ sendCommand("connect", [state EXCEPT !.isConnecting = TRUE, !.error = NoError])
  /\ UNCHANGED <<phase, wsRef, sockState, rtimers, reconnectTimeoutRef, isScanning,
                 discoveredDevices, apps, screenshotResolveRef, wolResolveRef, req>>

disconnect ==
  /\ CanIssue
  /\ sendCommand("disconnect", [state EXCEPT !.isConnected = FALSE, !.device = 0])
  /\ apps' = "empty"
  /\ UNCHANGED <<phase, wsRef, sockState, rtimers, reconnectTimeoutRef, isScanning,
                 discoveredDevices, screenshotResolveRef, wolResolveRef, req>>

FreeReqs == { r \in Reqs : req[r].kind = "none" }

\* takeScreenshot with a plausible slip: a resolver already in the slot is
\* kept and the new one is dropped (first writer wins).
takeScreenshotKeepsFirst ==
  /\ CanIssue
  /\ FreeReqs # {}
  /\ sendCommand("screenshot", state)
  /\ LET r == LeastFree(FreeReqs) IN
       /\ req' = [req EXCEPT ![r] = [kind |-> "screenshot", timer |-> TRUE,
                                     results |-> IF IsOpen(wsRef) THEN <<>>
                                                 ELSE <<[value |-> "null", by |-> "unsent"]>>]]
       /\ screenshotResolveRef' = IF ~IsOpen(wsRef) THEN 0
                                  ELSE IF screenshotResolveRef # 0 THEN screenshotResolveRef
                                  ELSE r
  /\ UNCHANGED <<phase, wsRef, sockState, rtimers, reconnectTimeoutRef, isScanning,
                 discoveredDevices, apps, wolResolveRef>>

\* takeScreenshot: the slot takes the new resolver, the command is sent; a
\* command that could not be sent resolves null at once and empties the slot.
\* The 10-second timer is armed in either case.
takeScreenshot ==
  /\ CanIssue
  /\ FreeReqs # {}
  /\ sendCommand("screenshot", state)
  /\ LET r == LeastFree(FreeReqs) IN
       /\ req' = [req EXCEPT ![r] = [kind |-> "screenshot", timer |-> TRUE,
                                     results |-> IF IsOpen(wsRef) THEN <<>>
                                                 ELSE <<[value |-> "null", by |-> "unsent"]>>]]
       /\ screenshotResolveRef' = IF IsOpen(wsRef) THEN r ELSE 0
  /\ UNCHANGED <<phase, wsRef, sockState, rtimers, reconnectTimeoutRef, isScanning,
                 discoveredDevices, apps, wolResolveRef>>

\* wakeOnLan: as takeScreenshot, with false and a 5-second timer.
wakeOnLan ==
  /\ CanIssue
  /\ FreeReqs # {}
  /\ sendCommand("wake_on_lan", state)
  /\ LET r == LeastFree(FreeReqs) IN
       /\ req' = [req EXCEPT ![r] = [kind |-> "wol", timer |-> TRUE,
                                     results |-> IF IsOpen(wsRef) THEN <<>>
                                                 ELSE <<[value |-> "false", by |-> "unsent"]>>]]
       /\ wolResolveRef' = IF IsOpen(wsRef) THEN r ELSE 0
  /\ UNCHANGED <<phase, wsRef, sockState, rtimers, reconnectTimeoutRef, isScanning,
                 discoveredDevices, apps, screenshotResolveRef>>

\* Timers of one kind have one delay: they fire in the order they were armed.
OldestTimer(r) ==
  /\ req[r].timer
  /\ \A q \in Reqs : (q < r /\ req[q].kind = req[r].kind) => ~req[q].timer

\* The timeout callback with a plausible slip: the resolver is invoked, the
\* slot is not emptied.
ScreenshotTimeoutNoClear(r) ==
  /\ req[r].kind = "screenshot"
  /\ OldestTimer(r)
  /\ req' = IF screenshotResolveRef # 0
            THEN [Invoke(req, screenshotResolveRef, "null", "timeout") EXCEPT ![r].timer = FALSE]
            ELSE [req EXCEPT ![r].timer = FALSE]
  /\ UNCHANGED <<screenshotResolveRef, phase, wsRef, sockState, rtimers, reconnectTimeoutRef,
                 state, isScanning, discoveredDevices, apps, wolResolveRef, cmds, wire>>

\* The callback of the timer that takeScreenshot call r armed: whatever
\* resolver the slot holds now gets null, and the slot is emptied.
ScreenshotTimeout(r) ==
  /\ req[r].kind = "screenshot"
  /\ OldestTimer(r)
  /\ req' = IF screenshotResolveRef # 0
            THEN [Invoke(req, screenshotResolveRef, "null", "timeout") EXCEPT ![r].timer = FALSE]
            ELSE [req EXCEPT ![r].timer = FALSE]
  /\ screenshotResolveRef' = 0
  /\ UNCHANGED <<phase, wsRef, sockState, rtimers, reconnectTimeoutRef, state, isScanning,
                 discoveredDevices, apps, wolResolveRef, cmds, wire>>

WolTimeout(r) ==
  /\ req[r].kind = "wol"
  /\ OldestTimer(r)
  /\ req' = IF wolResolveRef # 0
            THEN [Invoke(req, wolResolveRef, "false", "timeout") EXCEPT ![r].timer = FALSE]
            ELSE [req EXCEPT ![r].timer = FALSE]
  /\ wolResolveRef' = 0
  /\ UNCHANGED <<phase, wsRef, sockState, rtimers, reconnectTimeoutRef, state, isScanning,
                 discoveredDevices, apps, screenshotResolveRef, cmds, wire>>

\* =====================================================================
\* THE PAGE (src/src/pages/Index.tsx) OVER THE BRIDGE HOOK
\* =====================================================================
VARIABLES
  selectedDevices,   \* Index state selectedDevices: the devices ticked in the panel
  connectedDevices   \* Index state connectedDevices: the connected-devices list

pageVars == <<selectedDevices, connectedDevices>>

PageDevices == 1..MaxDev

PageInit ==
  /\ selectedDevices = <<>>
  /\ connectedDevices = <<>>

\* list.some(d => d.id === device.id)
InList(list, d) == \E i \in 1..Len(list) : list[i] = d

\* The effect on [state.device, connectedDevices], run after a render with
\* connection state st and list `list`: a current device that is not in the
\* list is appended.
deviceEffect(st, list) ==
  IF st.device # 0 /\ ~InList(list, st.device) THEN Append(list, st.device) ELSE list

\* handleToggleDeviceSelection(device)
handleToggleDeviceSelection(d) ==
  /\ selectedDevices' = IF InList(selectedDevices, d)
                        THEN SelectSeq(selectedDevices, LAMBDA e : e # d)
                        ELSE Append(selectedDevices, d)
  /\ UNCHANGED connectedDevices
  /\ UNCHANGED bridgeVars

\* selectedDevices.forEach(device => connect(device)): every connect sets
\* isConnecting and clears the error, and its sendCommand transmits, or
\* sets the error when the channel is not open.
connectEach(devs) ==
  /\ cmds' = cmds \o [i \in 1..Len(devs) |-> [open |-> IsOpen(wsRef), ret |-> IsOpen(wsRef)]]
  /\ wire' = IF IsOpen(wsRef)
             THEN wire \o [i \in 1..Len(devs) |-> [cmd |-> Len(cmds) + i, type |-> "connect"]]
             ELSE wire
  /\ state' = IF devs = <<>> THEN state
              ELSE [state EXCEPT !.isConnecting = TRUE,
                                 !.error = IF IsOpen(wsRef) THEN NoError ELSE ErrNotConnected]

\* handleConnectSelected: connect every selected device, add the selected
\* devices that are not in the connected-devices list, clear the selection.
handleConnectSelected ==
  /\ CanIssue
  /\ connectEach(selectedDevices)
  /\ connectedDevices' =
       deviceEffect(state', connectedDevices
                              \o SelectSeq(selectedDevices,
                                           LAMBDA e : ~InList(connectedDevices, e)))
  /\ selectedDevices' = <<>>
  /\ UNCHANGED <<phase, wsRef, sockState, rtimers, reconnectTimeoutRef, isScanning,
                 discoveredDevices, apps, screenshotResolveRef, wolResolveRef, req>>

\* handleDisconnectDevice(device), the button of an entry of the
\* connected-devices list: the entry is removed and the hook's disconnect()
\* is called, with no argument.
handleDisconnectDevice(d) ==
  /\ InList(connectedDevices, d)
  /\ disconnect
  /\ connectedDevices' = deviceEffect(state', SelectSeq(connectedDevices, LAMBDA e : e # d))
  /\ UNCHANGED selectedDevices

\* A message of the bridge process handled while the page is shown: the
\* hook's handler, then the page's effect.
PageOnMessage(s, m) ==
  /\ OnMessage(s, m)
  /\ connectedDevices' = deviceEffect(state', connectedDevices)
  /\ UNCHANGED selectedDevices

PageMessages ==
  { [type |-> "connected", device |-> d] : d \in PageDevices }
  \cup { [type |-> t] : t \in {"disconnected", "error"} }

\* =====================================================================
\* WIRE TRANSPORT (src/unnamed/part_005) AND ITS DISPATCHER
\* (src/src/hooks/useDirectAdb.ts)
\* =====================================================================
VARIABLES
  tcp,            \* TcpSocket is loaded (native platform); FALSE is simulated mode
  conn,           \* the AdbConnection objects: device, clientId, localId, isAuthenticated
  tsock,          \* the TCP sockets of the native side: "free" | "open"
  connections,    \* AdbConnectionManager.connections: device id -> connection, 0 for none
  mapOrder,       \* the keys of that Map in insertion order (its iteration order)
  dall,           \* the disconnectAll() call of the hook's cleanup
  call,           \* dispatcher connect / disconnect calls suspended at an await
  ops,            \* shell round trips suspended at an await
  directState,    \* the dispatcher's ConnectionState
  connectionRef,  \* connectionRef.current, 0 for null
  lastConnected,  \* localStorage adb_last_connected, 0 for none
  saved,          \* localStorage adb_saved_devices, when it holds a list: the devices
  savedShape,     \* what that storage item holds: see StorageShapes
  directDevices,  \* the dispatcher's discoveredDevices
  frames          \* the frames handed to TcpSocket.send, in order

wireVars == <<tcp, conn, tsock, connections, mapOrder, dall, call, ops, directState,
              connectionRef, lastConnected, saved, savedShape, directDevices, frames>>

Devices == 1..MaxDev
Conns == 1..MaxConn
TcpSocks == 1..MaxTcp
Calls == 1..MaxCall
Ops == 1..MaxOp

\* The error text of connect's catch branch. AdbConnection.connect catches
\* what its socket throws and adbManager.connect looks at no result: the
\* branch is reached only when saveDevice throws.
ErrConnectFailed == "Failed to connect to device. Make sure ADB is enabled on the TV."

NoConn == [used |-> FALSE, dev |-> 0, clientId |-> 0, localId |-> 1,
           isAuthenticated |-> FALSE, connectResult |-> "none"]
IdleCall == [pc |-> "idle", dev |-> 0, name |-> "", conn |-> 0]
IdleOp == [pc |-> "idle", conn |-> 0, ret |-> "none"]
IdleAll == [pc |-> "idle", visited |-> {}, conn |-> 0]

\* ------------------------------------------------------ device registry
\* The devices the user can enter: device key d stands for the address
\* 10.0.0.d at the default port; its id is the text `${ip}:${port}`.
IpOf(d) == "10.0.0." \o ToString(d)
MakeId(ip, port) == ip \o ":" \o ToString(port)
DeviceNames == {"", "TV"}

\* The Device object addDevice builds for ip, name and port.
NewDevice(ip, name, port) ==
  [id |-> MakeId(ip, port), ip |-> ip, port |-> port,
   name |-> IF name = "" THEN "Android TV (" \o ip \o ")" ELSE name]
Device(d, name) == NewDevice(IpOf(d), name, ADB_PORT)

\* What localStorage holds under adb_saved_devices: nothing ("missing"),
\* text JSON.parse throws on ("unparseable"), JSON that is no array, such as
\* null or {} ("other"), or the JSON of a device list ("list").
StorageShapes == {"missing", "unparseable", "other", "list"}

\* getSavedDevices(): the parsed item, [] for a missing item or when
\* JSON.parse throws. The result is a list, or the parsed value that is none.
getSavedDevices ==
  CASE savedShape = "list" -> [isList |-> TRUE, list |-> saved]
    [] savedShape \in {"missing", "unparseable"} -> [isList |-> TRUE, list |-> <<>>]
    [] OTHER -> [isList |-> FALSE, list |-> <<>>]

\* saved.findIndex in saveDevice and getSavedDevices().filter in
\* removeDevice throw a TypeError on a value that is no array.
registryThrows == ~getSavedDevices.isList

\* The state after construction, the storage item being of the given shape.
WireInitStored(shape) ==
  /\ savedShape = shape
  /\ directDevices = <<>>
  /\ tcp = FALSE
  /\ conn = [c \in Conns |-> NoConn]
  /\ tsock = [x \in TcpSocks |-> "free"]
  /\ connections = [d \in Devices |-> 0]
  /\ mapOrder = <<>>
  /\ dall = IdleAll
  /\ call = [k \in Calls |-> IdleCall]
  /\ ops = [o \in Ops |-> IdleOp]
  /\ directState = [isConnected |-> FALSE, device |-> 0, isConnecting |-> FALSE,
                    error |-> NoError]
  /\ connectionRef = 0
  /\ lastConnected = 0
  /\ saved = <<>>
  /\ frames = <<>>

\* The first launch: nothing is stored.
WireInit == WireInitStored("missing")

\* initTcpSocket on a native platform, from the hook's init effect: the
\* plugin is loaded before the dispatcher is used. On the web it never is.
initTcpSocket ==
  /\ ~tcp
  /\ \A c \in Conns : ~conn[c].used
  /\ tcp' = TRUE
  /\ UNCHANGED <<conn, tsock, connections, mapOrder, dall, call, ops, directState,
                 connectionRef, lastConnected, saved, savedShape, directDevices, frames>>

\* A connection object nothing refers to any more and that holds no socket
\* is garbage: its slot is taken for the next new AdbConnection.
Referenced(c) ==
  \/ \E d \in Devices : connections[d] = c
  \/ connectionRef = c
  \/ \E k \in Calls : call[k].conn = c
  \/ \E o \in Ops : ops[o].conn = c
  \/ dall.conn = c
FreeConns == { c \in Conns : ~conn[c].used \/ (~Referenced(c) /\ conn[c].clientId = 0) }
FreeTcp == { x \in TcpSocks : tsock[x] = "free" }
FreeCalls == { k \in Calls : call[k].pc = "idle" }
FreeOps == { o \in Ops : ops[o].pc = "idle" }

\* Map.set and Map.delete on the key order: a new key goes to the end, a key
\* already present keeps its place.
MapSet(order, d) ==
  IF \E i \in 1..Len(order) : order[i] = d THEN order ELSE Append(order, d)
MapDelete(order, d) == SelectSeq(order, LAMBDA x : x # d)

\* saveDevice with a plausible slip: the entry of the same id is removed and
\* the device appended, so a device saved again moves to the end.
saveDeviceMovesToEnd(list, device) ==
  Append(SelectSeq(list, LAMBDA e : e.id # device.id), device)

\* saveDevice on the list read: replace the entry of the same id, else
\* append. addDevice does the same on discoveredDevices.
saveDevice(list, device) ==
  IF \E i \in 1..Len(list) : list[i].id = device.id
  THEN [i \in 1..Len(list) |-> IF list[i].id = device.id THEN device ELSE list[i]]
  ELSE Append(list, device)

\* removeDevice on the list read: the entries of another id.
removeDevice(list, id) == SelectSeq(list, LAMBDA e : e.id # id)

\* The name of device d as the dispatcher's list shows it; the name
\* addDevice gives by default for a device that is not in the list.
UiName(d) ==
  IF \E i \in 1..Len(directDevices) : directDevices[i].id = Device(d, "").id
  THEN directDevices[CHOOSE i \in 1..Len(directDevices) :
                       directDevices[i].id = Device(d, "").id].name
  ELSE Device(d, "").name

\* The rest of the dispatcher's connect(device) after `await
\* adbManager.connect` has returned connection c, device being the device of
\* key d with name nm: reference, last-connected, saved list, state. s is
\* the connection state as the steps before have left it. saveDevice throws
\* on a stored value that is no array: the catch branch sets the error.
ConnectSucceeded(s, d, nm, c) ==
  /\ connectionRef' = c
  /\ lastConnected' = d
  /\ IF registryThrows
     THEN /\ directState' = [s EXCEPT !.isConnecting = FALSE, !.error = ErrConnectFailed]
          /\ UNCHANGED <<saved, savedShape>>
     ELSE /\ saved' = saveDevice(getSavedDevices.list, Device(d, nm))
          /\ savedShape' = "list"
          /\ directState' = [s EXCEPT !.isConnected = TRUE, !.isConnecting = FALSE,
                                      !.device = d, !.error = NoError]
  /\ UNCHANGED directDevices

\* new AdbConnection(device); connection.connect() up to its first await.
\* Without TcpSocket connect() returns true at once (simulated mode), the
\* manager registers the connection and the dispatcher goes on. With
\* TcpSocket the call is suspended at `await TcpSocket.connect`.
StartNewConnection(d, s) ==
  /\ FreeConns # {}
  /\ LET c == LeastFree(FreeConns) IN
       IF tcp
       THEN /\ FreeCalls # {}
            /\ conn' = [conn EXCEPT ![c] = [NoConn EXCEPT !.used = TRUE, !.dev = d,
                                                         !.connectResult = "pending"]]
            /\ call' = [call EXCEPT ![LeastFree(FreeCalls)] =
                                      [pc |-> "tcpConnect", dev |-> d,
                                       name |-> UiName(d), conn |-> c]]
            /\ directState' = s
            /\ UNCHANGED <<connections, mapOrder, connectionRef, lastConnected, saved, savedShape, directDevices>>
       ELSE /\ conn' = [conn EXCEPT ![c] = [NoConn EXCEPT !.used = TRUE, !.dev = d,
                                                         !.connectResult = "true"]]
            /\ connections' = [connections EXCEPT ![d] = c]
            /\ mapOrder' = MapSet(mapOrder, d)
            /\ ConnectSucceeded(s, d, UiName(d), c)
            /\ UNCHANGED call
  /\ UNCHANGED <<tsock, frames>>

\* AdbConnectionManager.connect without the lookup of an existing
\* connection: a plausible slip.
managerConnectNoLookup(d, s) == StartNewConnection(d, s)

\* AdbConnectionManager.connect(device), as far as it runs before its first
\* real suspension: the connection registered for device.id is returned as
\* it is, else a new connection starts its connect sequence.
managerConnect(d, s) ==
  IF connections[d] # 0
  THEN /\ ConnectSucceeded(s, d, UiName(d), connections[d])
       /\ UNCHANGED <<conn, tsock, connections, mapOrder, call, frames>>
  ELSE StartNewConnection(d, s)

\* The dispatcher's connect(device).
directConnect(d) ==
  /\ managerConnect(d, [directState EXCEPT !.isConnecting = TRUE, !.error = NoError])
  /\ UNCHANGED <<tcp, dall, ops>>

\* connection.connect() has returned b for call k; the manager does not look
\* at b: it registers the connection and returns it, and the dispatcher's
\* connect goes on as after a success.
ConnectReturned(k, cn) ==
  /\ connections' = [connections EXCEPT ![call[k].dev] = call[k].conn]
  /\ mapOrder' = MapSet(mapOrder, call[k].dev)
  /\ conn' = cn
  /\ call' = [call EXCEPT ![k] = IdleCall]
  /\ ConnectSucceeded(directState, call[k].dev, call[k].name, call[k].conn)

\* TcpSocket.connect resolves: clientId is set and sendConnect hands the
\* CNXN frame to TcpSocket.send.
TcpConnectOk(k) ==
  /\ call[k].pc = "tcpConnect"
  /\ FreeTcp # {}
  /\ LET x == LeastFree(FreeTcp) IN
       /\ tsock' = [tsock EXCEPT ![x] = "open"]
       /\ conn' = [conn EXCEPT ![call[k].conn].clientId = x]
       /\ frames' = Append(frames, [sock |-> x, command |-> "CNXN",
                                    arg0 |-> ADB_VERSION, arg1 |-> ADB_MAX_PAYLOAD,
                                    payload |-> "host::features=shell_v2,cmd,stat_v2"])
  /\ call' = [call EXCEPT ![k].pc = "send"]
  /\ UNCHANGED <<tcp, dall, connections, mapOrder, ops, directState, connectionRef, lastConnected, saved, savedShape, directDevices>>

\* TcpSocket.connect rejects: connect() catches and returns false.
TcpConnectFail(k) ==
  /\ call[k].pc = "tcpConnect"
  /\ ConnectReturned(k, [conn EXCEPT ![call[k].conn].connectResult = "false"])
  /\ UNCHANGED <<tcp, dall, tsock, ops, frames>>

\* TcpSocket.send of the CNXN frame resolves: readResponse starts its read.
ConnectSendOk(k) ==
  /\ call[k].pc = "send"
  /\ call' = [call EXCEPT ![k].pc = "read"]
  /\ UNCHANGED <<tcp, dall, conn, tsock, connections, mapOrder, ops, directState, connectionRef,
                 lastConnected, saved, savedShape, directDevices, frames>>

\* TcpSocket.send rejects: connect() catches and returns false; the socket
\* stays open.
ConnectSendFail(k) ==
  /\ call[k].pc = "send"
  /\ ConnectReturned(k, [conn EXCEPT ![call[k].conn].connectResult = "false"])
  /\ UNCHANGED <<tcp, dall, tsock, ops, frames>>

\* TcpSocket.read ends: with a response frame (isAuthenticated is set), or
\* with a timeout or an error (readResponse returns null). connect() returns
\* true in both cases.
ConnectReadDone(k, response) ==
  /\ call[k].pc = "read"
  /\ ConnectReturned(k, [conn EXCEPT ![call[k].conn].connectResult = "true",
                                     ![call[k].conn].isAuthenticated = response])
  /\ UNCHANGED <<tcp, dall, tsock, ops, frames>>

\* The rest of the dispatcher's disconnect after `await adbManager.disconnect`.
DisconnectFinished ==
  /\ connectionRef' = 0
  /\ directState' = [directState EXCEPT !.isConnected = FALSE, !.device = 0]
  /\ lastConnected' = 0

\* The dispatcher's disconnect(): adbManager.disconnect(state.device.id).
\* A registered connection with a socket is suspended at
\* `await TcpSocket.disconnect`; everything else runs through at once.
disconnectCall ==
  /\ LET d == directState.device
         c == IF d = 0 THEN 0 ELSE connections[d] IN
       IF c # 0 /\ conn[c].clientId # 0 /\ tcp
       THEN /\ FreeCalls # {}
            /\ call' = [call EXCEPT ![LeastFree(FreeCalls)] =
                                      [pc |-> "tcpDisconnect", dev |-> d, name |-> "",
                                       conn |-> c]]
            /\ UNCHANGED <<connections, mapOrder, dall, directState, connectionRef,
                           lastConnected>>
       ELSE /\ connections' = IF c # 0 THEN [connections EXCEPT ![d] = 0] ELSE connections
            /\ mapOrder' = IF c # 0 THEN MapDelete(mapOrder, d) ELSE mapOrder
            /\ dall' = IF c # 0 THEN [dall EXCEPT !.visited = @ \ {d}] ELSE dall
            /\ DisconnectFinished
            /\ UNCHANGED call
  /\ UNCHANGED <<tcp, conn, tsock, ops, frames>>

\* disconnect() called by the user.
directDisconnect == disconnectCall /\ UNCHANGED <<saved, savedShape, directDevices>>

\* addDevice(ip, name, port) for the address of key d. saveDevice throws on
\* a stored value that is no array, before anything is written.
addDevice(d, name) ==
  /\ IF registryThrows
     THEN UNCHANGED <<saved, savedShape, directDevices>>
     ELSE /\ saved' = saveDevice(getSavedDevices.list, Device(d, name))
          /\ savedShape' = "list"
          /\ directDevices' = saveDevice(directDevices, Device(d, name))
  /\ UNCHANGED <<tcp, conn, tsock, connections, mapOrder, dall, call, ops, directState,
                 connectionRef, lastConnected, frames>>

\* removeDeviceFromList with a plausible slip: the connected device is
\* removed from the lists and stays connected.
removeDeviceKeepsConnection(d) ==
  IF registryThrows
  THEN UNCHANGED wireVars
  ELSE /\ saved' = removeDevice(getSavedDevices.list, Device(d, "").id)
       /\ savedShape' = "list"
       /\ directDevices' = removeDevice(directDevices, Device(d, "").id)
       /\ UNCHANGED <<tcp, conn, tsock, connections, mapOrder, dall, call, ops,
                      directState, connectionRef, lastConnected, frames>>

\* removeDevice(deviceId) of the dispatcher (removeDeviceFromList): the
\* device leaves the stored list and discoveredDevices; if it is
\* state.device, disconnect() is called. removeSavedDevice throws on a stored
\* value that is no array, before anything is written.
removeDeviceFromList(d) ==
  IF registryThrows
  THEN UNCHANGED wireVars
  ELSE /\ saved' = removeDevice(getSavedDevices.list, Device(d, "").id)
       /\ savedShape' = "list"
       /\ directDevices' = removeDevice(directDevices, Device(d, "").id)
       /\ IF directState.device = d
          THEN disconnectCall
          ELSE UNCHANGED <<tcp, conn, tsock, connections, mapOrder, dall, call, ops,
                           directState, connectionRef, lastConnected, frames>>

\* AdbConnectionManager.disconnect ending with connections.clear() in place
\* of connections.delete(deviceId): a plausible slip.
TcpDisconnectDoneClearsMap(k) ==
  /\ call[k].pc = "tcpDisconnect"
  /\ LET c == call[k].conn IN
       /\ tsock' = IF conn[c].clientId # 0
                   THEN [tsock EXCEPT ![conn[c].clientId] = "free"] ELSE tsock
       /\ conn' = [conn EXCEPT ![c].clientId = 0]
  /\ connections' = [d \in Devices |-> 0]
  /\ mapOrder' = <<>>
  /\ dall' = [dall EXCEPT !.visited = {}]
  /\ call' = [call EXCEPT ![k] = IdleCall]
  /\ DisconnectFinished
  /\ UNCHANGED <<tcp, ops, saved, savedShape, directDevices, frames>>

\* TcpSocket.disconnect ends (an error is caught and logged): the socket is
\* closed, clientId is null, the map entry of the id is deleted and the
\* dispatcher's disconnect goes on.
TcpDisconnectDone(k) ==
  /\ call[k].pc = "tcpDisconnect"
  /\ LET c == call[k].conn IN
       /\ tsock' = IF conn[c].clientId # 0
                   THEN [tsock EXCEPT ![conn[c].clientId] = "free"] ELSE tsock
       /\ conn' = [conn EXCEPT ![c].clientId = 0]
  /\ connections' = [connections EXCEPT ![call[k].dev] = 0]
  /\ mapOrder' = MapDelete(mapOrder, call[k].dev)
  /\ dall' = [dall EXCEPT !.visited = @ \ {call[k].dev}]
  /\ call' = [call EXCEPT ![k] = IdleCall]
  /\ DisconnectFinished
  /\ UNCHANGED <<tcp, ops, saved, savedShape, directDevices, frames>>

\* ------------------------------------------------------ disconnectAll
\* The hook is mounted until its cleanup has run; the cleanup starts
\* adbManager.disconnectAll().
directMounted == dall.pc = "idle"

\* The keys of the map up to and including key d, in iteration order.
UpTo(d) ==
  { mapOrder[i] : i \in 1..(CHOOSE i \in 1..Len(mapOrder) : mapOrder[i] = d) }

\* The for-of loop of disconnectAll over connections.values(), from the
\* entries the iterator has not visited yet (v: the visited keys), with the
\* connection objects cn. connection.disconnect() does nothing for a
\* connection without socket; at the first one with a socket the loop is
\* suspended at `await TcpSocket.disconnect`. After the last entry
\* connections.clear() runs and disconnectAll returns.
DisconnectAllLoop(v, cn) ==
  LET pending == SelectSeq(mapOrder, LAMBDA d : /\ d \notin v
                                               /\ tcp
                                               /\ cn[connections[d]].clientId # 0) IN
    IF pending # <<>>
    THEN /\ dall' = [pc |-> "await", visited |-> v \cup UpTo(Head(pending)),
                     conn |-> connections[Head(pending)]]
         /\ UNCHANGED <<connections, mapOrder>>
    ELSE /\ dall' = [pc |-> "done", visited |-> {}, conn |-> 0]
         /\ connections' = [d \in Devices |-> 0]
         /\ mapOrder' = <<>>

\* The cleanup of the hook's init effect: adbManager.disconnectAll().
disconnectAll ==
  /\ directMounted
  /\ DisconnectAllLoop({}, conn)
  /\ UNCHANGED <<tcp, conn, tsock, call, ops, directState, connectionRef, lastConnected,
                 saved, savedShape, directDevices, frames>>

\* TcpSocket.disconnect of the connection disconnectAll waits for ends (an
\* error is caught and logged): the socket is closed, clientId is null and
\* the loop goes on.
DisconnectAllTeardownDone ==
  /\ dall.pc = "await"
  /\ LET c == dall.conn
         cn == [conn EXCEPT ![c].clientId = 0] IN
       /\ tsock' = IF conn[c].clientId # 0
                   THEN [tsock EXCEPT ![conn[c].clientId] = "free"] ELSE tsock
       /\ conn' = cn
       /\ DisconnectAllLoop(dall.visited, cn)
  /\ UNCHANGED <<tcp, call, ops, directState, connectionRef, lastConnected, saved, savedShape, directDevices, frames>>

\* ------------------------------------------------- dispatcher commands
DirectCommands == {"sendKey", "sendText", "moveCursor", "tap", "scroll", "fetchApps",
                   "launchApp", "powerOff", "takeScreenshot", "wakeOnLan"}
ShellCommands == DirectCommands \ {"takeScreenshot", "wakeOnLan"}

\* The shell command line a dispatcher command runs. tap, scroll (down) and
\* powerOff go through sendKey with DPAD_CENTER, DPAD_DOWN and POWER.
shellLine(op) ==
  CASE op = "sendKey" -> "input keyevent 3"
    [] op = "sendText" -> "input text"
    [] op = "moveCursor" -> "input swipe"
    [] op = "tap" -> "input keyevent 23"
    [] op = "scroll" -> "input keyevent 20"
    [] op = "fetchApps" -> "pm list packages -3"
    [] op = "launchApp" -> "monkey -p"
    [] op = "powerOff" -> "input keyevent 26"

\* The guard every shell-backed dispatcher command passes before it touches
\* the connection: state.isConnected, and connectionRef.current.
directGuard == directState.isConnected /\ connectionRef # 0

\* What a dispatcher command returns to its caller (the value its promise
\* resolves with). wakeOnLan has no guard and returns true; takeScreenshot
\* returns null; the others return nothing.
directReturn(op) ==
  CASE op = "wakeOnLan" -> "true"
    [] op = "takeScreenshot" -> "null"
    [] OTHER -> "undefined"

\* shell with a plausible slip: this.localId in place of this.localId++.
shellSameLocalId(c, line) ==
  IF conn[c].clientId = 0
  THEN UNCHANGED <<conn, ops, frames>>
  ELSE /\ FreeOps # {}
       /\ frames' = Append(frames, [sock |-> conn[c].clientId, command |-> "OPEN",
                                    arg0 |-> conn[c].localId, arg1 |-> 0,
                                    payload |-> line])
       /\ conn' = conn
       /\ ops' = [ops EXCEPT ![LeastFree(FreeOps)] =
                                [pc |-> "send", conn |-> c, ret |-> "none"]]

\* AdbConnection.shell(command) on connection c up to its first await:
\* without a socket the command is only logged; else the OPEN frame with
\* the next local id goes to TcpSocket.send.
shell(c, line) ==
  IF conn[c].clientId = 0
  THEN UNCHANGED <<conn, ops, frames>>
  ELSE /\ FreeOps # {}
       /\ frames' = Append(frames, [sock |-> conn[c].clientId, command |-> "OPEN",
                                    arg0 |-> conn[c].localId, arg1 |-> 0,
                                    payload |-> line])
       /\ conn' = [conn EXCEPT ![c].localId = @ + 1]
       /\ ops' = [ops EXCEPT ![LeastFree(FreeOps)] =
                                [pc |-> "send", conn |-> c, ret |-> "none"]]

\* sendKey, sendText, moveCursor, tap, scroll, fetchApps, launchApp,
\* powerOff, takeScreenshot, wakeOnLan of the dispatcher.
directCommand(op) ==
  /\ IF op \in ShellCommands /\ directGuard
     THEN shell(connectionRef, shellLine(op))
     ELSE UNCHANGED <<conn, ops, frames>>
  /\ UNCHANGED <<tcp, dall, tsock, connections, mapOrder, call, directState, connectionRef,
                 lastConnected, saved, savedShape, directDevices>>

\* TcpSocket.send of an OPEN frame resolves: readResponse starts its read.
ShellSendOk(o) ==
  /\ ops[o].pc = "send"
  /\ ops' = [ops EXCEPT ![o].pc = "read"]
  /\ UNCHANGED <<tcp, dall, conn, tsock, connections, mapOrder, call, directState, connectionRef,
                 lastConnected, saved, savedShape, directDevices, frames>>

\* TcpSocket.send of an OPEN frame rejects: shell catches and returns null.
ShellSendFail(o) ==
  /\ ops[o].pc = "send"
  /\ ops' = [ops EXCEPT ![o] = [IdleOp EXCEPT !.ret = "null"]]
  /\ UNCHANGED <<tcp, dall, conn, tsock, connections, mapOrder, call, directState,
                 connectionRef, lastConnected, saved, savedShape, directDevices, frames>>

\* readResponse with a plausible slip: a read that timed out or failed
\* closes the socket of the connection.
ShellReadDoneAborts(o, result) ==
  /\ ops[o].pc = "read"
  /\ ops' = [ops EXCEPT ![o] = [pc |-> "idle", conn |-> 0, ret |-> result]]
  /\ LET c == ops[o].conn IN
       IF result = "null" /\ conn[c].clientId # 0
       THEN /\ tsock' = [tsock EXCEPT ![conn[c].clientId] = "free"]
            /\ conn' = [conn EXCEPT ![c].clientId = 0]
       ELSE UNCHANGED <<conn, tsock>>
  /\ UNCHANGED <<tcp, dall, connections, mapOrder, call, directState,
                 connectionRef, lastConnected, saved, savedShape, directDevices, frames>>

\* readResponse ends and shell returns what it returns: the data read
\* ("response"), or null when TcpSocket.read timed out or failed (the error
\* is caught and logged). Nothing is thrown and nothing is closed.
ShellReadResults == {"response", "null"}
ShellReadDone(o, result) ==
  /\ ops[o].pc = "read"
  /\ ops' = [ops EXCEPT ![o] = [IdleOp EXCEPT !.ret = result]]
  /\ UNCHANGED <<tcp, dall, conn, tsock, connections, mapOrder, call, directState,
                 connectionRef, lastConnected, saved, savedShape, directDevices, frames>>

\* ------------------------------------------------- key and text commands
\* The KeyCode type: the key names sendKey accepts.
KeyCodes ==
  {"KEYCODE_DPAD_UP", "KEYCODE_DPAD_DOWN", "KEYCODE_DPAD_LEFT", "KEYCODE_DPAD_RIGHT",
   "KEYCODE_DPAD_CENTER", "KEYCODE_BACK", "KEYCODE_HOME", "KEYCODE_MENU",
   "KEYCODE_VOLUME_UP", "KEYCODE_VOLUME_DOWN", "KEYCODE_VOLUME_MUTE", "KEYCODE_POWER",
   "KEYCODE_MEDIA_PLAY_PAUSE", "KEYCODE_MEDIA_STOP", "KEYCODE_MEDIA_NEXT",
   "KEYCODE_MEDIA_PREVIOUS", "KEYCODE_MEDIA_REWIND", "KEYCODE_MEDIA_FAST_FORWARD",
   "KEYCODE_CHANNEL_UP", "KEYCODE_CHANNEL_DOWN", "KEYCODE_TV_INPUT", "KEYCODE_SETTINGS",
   "KEYCODE_APP_SWITCH"}

\* KEY_CODE_MAP of the wire transport module.
KEY_CODE_MAP ==
  [KEYCODE_HOME |-> 3, KEYCODE_BACK |-> 4, KEYCODE_DPAD_UP |-> 19, KEYCODE_DPAD_DOWN |-> 20,
   KEYCODE_DPAD_LEFT |-> 21, KEYCODE_DPAD_RIGHT |-> 22, KEYCODE_DPAD_CENTER |-> 23,
   KEYCODE_VOLUME_UP |-> 24, KEYCODE_VOLUME_DOWN |-> 25, KEYCODE_POWER |-> 26,
   KEYCODE_VOLUME_MUTE |-> 164, KEYCODE_MENU |-> 82, KEYCODE_MEDIA_PLAY_PAUSE |-> 85,
   KEYCODE_MEDIA_STOP |-> 86, KEYCODE_MEDIA_NEXT |-> 87, KEYCODE_MEDIA_PREVIOUS |-> 88,
   KEYCODE_MEDIA_REWIND |-> 89, KEYCODE_MEDIA_FAST_FORWARD |-> 90,
   KEYCODE_CHANNEL_UP |-> 166, KEYCODE_CHANNEL_DOWN |-> 167, KEYCODE_SETTINGS |-> 176,
   KEYCODE_TV_INPUT |-> 178, KEYCODE_APP_SWITCH |-> 187]

\* getKeyCodeNumber with a plausible slip: the table lacks KEYCODE_TV_INPUT.
getKeyCodeNumberNoTvInput(keyCode) ==
  IF keyCode \in DOMAIN KEY_CODE_MAP \ {"KEYCODE_TV_INPUT"} /\ KEY_CODE_MAP[keyCode] # 0
  THEN KEY_CODE_MAP[keyCode]
  ELSE 0

\* getKeyCodeNumber(keyCode): KEY_CODE_MAP[keyCode] || 0.
getKeyCodeNumber(keyCode) ==
  IF keyCode \in DOMAIN KEY_CODE_MAP /\ KEY_CODE_MAP[keyCode] # 0
  THEN KEY_CODE_MAP[keyCode]
  ELSE 0

\* AdbConnection.sendKey(keyCode) with a key name, up to the first await
\* of its shell call.
sendKey(c, keyCode) == shell(c, "input keyevent " \o ToString(getKeyCodeNumber(keyCode)))

\* sendKey(keyCode) of the dispatcher: the guard, then the connection's
\* sendKey with the name.
directSendKey(keyCode) ==
  /\ IF directGuard
     THEN sendKey(connectionRef, keyCode)
     ELSE UNCHANGED <<conn, ops, frames>>
  /\ UNCHANGED <<tcp, dall, tsock, connections, mapOrder, call, directState, connectionRef,
                 lastConnected, saved, savedShape, directDevices>>

\* A text is the sequence of its character codes. The characters sendText
\* names, and the others used below.
Ch == [backslash |-> 92, quote |-> 34, dollar |-> 36, backtick |-> 96, space |-> 32,
       percent |-> 37, s |-> 115, a |-> 97]

\* text.replace(/ch/g, replacement): every occurrence of the character is
\* replaced, left to right, the replacement is not scanned again. None of
\* the replacement texts of sendText holds a $-pattern.
RECURSIVE ReplaceAll(_, _, _)
ReplaceAll(text, ch, replacement) ==
  IF text = <<>> THEN <<>>
  ELSE (IF Head(text) = ch THEN replacement ELSE <<Head(text)>>)
         \o ReplaceAll(Tail(text), ch, replacement)

\* The text `input text "` and the closing quote of the command line.
InputTextPrefix == <<105, 110, 112, 117, 116, Ch.space, 116, 101, 120, 116, Ch.space, Ch.quote>>

\* The command line of sendText with a plausible slip: the backslash pass
\* runs last.
sendTextLineBackslashLast(text) ==
  LET p1 == ReplaceAll(text, Ch.quote, <<Ch.backslash, Ch.quote>>)
      p2 == ReplaceAll(p1, Ch.dollar, <<Ch.backslash, Ch.dollar>>)
      p3 == ReplaceAll(p2, Ch.backtick, <<Ch.backslash, Ch.backtick>>)
      p4 == ReplaceAll(p3, Ch.space, <<Ch.percent, Ch.s>>)
      escaped == ReplaceAll(p4, Ch.backslash, <<Ch.backslash, Ch.backslash>>)
  IN InputTextPrefix \o escaped \o <<Ch.quote>>

\* The command line of AdbConnection.sendText(text): the five replace
\* passes in their order, then `input text "${escaped}"`.
sendTextLine(text) ==
  LET p1 == ReplaceAll(text, Ch.backslash, <<Ch.backslash, Ch.backslash>>)
      p2 == ReplaceAll(p1, Ch.quote, <<Ch.backslash, Ch.quote>>)
      p3 == ReplaceAll(p2, Ch.dollar, <<Ch.backslash, Ch.dollar>>)
      p4 == ReplaceAll(p3, Ch.backtick, <<Ch.backslash, Ch.backtick>>)
      escaped == ReplaceAll(p4, Ch.space, <<Ch.percent, Ch.s>>)
  IN InputTextPrefix \o escaped \o <<Ch.quote>>

\* AdbConnection.sendText(text) up to the first await of its shell call.
sendText(c, text) == shell(c, sendTextLine(text))

\* sendText(text) of the dispatcher: the guard, then the connection's sendText.
directSendText(text) ==
  /\ IF directGuard
     THEN sendText(connectionRef, text)
     ELSE UNCHANGED <<conn, ops, frames>>
  /\ UNCHANGED <<tcp, dall, tsock, connections, mapOrder, call, directState, connectionRef,
                 lastConnected, saved, savedShape, directDevices>>

\* The texts sent: every text of up to MaxTextLen characters over the
\* characters of Ch, and "hello world".
HelloWorld == <<104, 101, 108, 108, 111, Ch.space, 119, 111, 114, 108, 100>>
TextChars == { Ch[k] : k \in DOMAIN Ch }
Texts == UNION { [1..n -> TextChars] : n \in 0..MaxTextLen } \cup {HelloWorld}

\* ------------------------------------------------------- bridge replies
\* The bridge process answers a connect command it received with a
\* `connected` message for that device and a disconnect command with a
\* `disconnected` message, in the order of the commands.
VARIABLES
  owed            \* the answers to transmitted commands that have not arrived yet

replyVars == <<owed>>

ReplyInit == owed = <<>>

\* connect(device), and the answer the bridge owes when the command went out.
connectSent(d) ==
  /\ connect(d)
  /\ owed' = IF IsOpen(wsRef) THEN Append(owed, [type |-> "connected", device |-> d])
             ELSE owed

\* scanNetwork(), and the answer the bridge owes when the command went out.
scanNetworkSent ==
  /\ scanNetwork
  /\ owed' = IF IsOpen(wsRef) THEN Append(owed, [type |-> "scan_result"]) ELSE owed

\* disconnect(), and the answer the bridge owes when the command went out.
disconnectSent ==
  /\ disconnect
  /\ owed' = IF IsOpen(wsRef) THEN Append(owed, [type |-> "disconnected"]) ELSE owed

\* takeScreenshot(), and the answer the bridge owes when the command went
\* out: a screenshot made for this request (req names the request).
takeScreenshotSent ==
  /\ takeScreenshot
  /\ owed' = IF IsOpen(wsRef)
             THEN Append(owed, [type |-> "screenshot", success |-> TRUE, data |-> "png",
                                req |-> LeastFree(FreeReqs)])
             ELSE owed

\* wakeOnLan(mac), and the answer the bridge owes when the command went out.
wakeOnLanSent ==
  /\ wakeOnLan
  /\ owed' = IF IsOpen(wsRef)
             THEN Append(owed, [type |-> "wol_sent", success |-> TRUE,
                                req |-> LeastFree(FreeReqs)])
             ELSE owed

\* The oldest answer owed arrives on the channel and ws.onmessage handles it.
BridgeReply ==
  /\ owed # <<>>
  /\ wsRef # 0
  /\ OnMessage(wsRef, Head(owed))
  /\ owed' = Tail(owed)

\* ------------------------------------------------- the device's answers
\* The device answers every frame it receives with one response, in the
\* order of the frames; a response waits on the socket until a read takes it.
VARIABLES
  peer            \* the device's side of the socket of device 1: see PeerInit

peerVars == <<peer>>

\* inbox: the responses that have arrived and no read has taken, each named
\* by the frame it answers; answered: the number of frames answered;
\* opFrame: the frame each shell call in flight has sent.
PeerInit == peer = [inbox |-> <<>>, answered |-> 0, opFrame |-> [o \in Ops |-> 0]]

\* The device's response to the next frame arrives on the socket.
DeviceAnswer ==
  /\ peer.answered < Len(frames)
  /\ peer' = [peer EXCEPT !.answered = @ + 1, !.inbox = Append(@, peer.answered + 1)]

\* The handshake read of sendConnect takes the data that has arrived.
HandshakeReadData(k) ==
  /\ peer.inbox # <<>>
  /\ ConnectReadDone(k, TRUE)
  /\ peer' = [peer EXCEPT !.inbox = Tail(@)]

\* A key command of the dispatcher; the shell call notes the frame it sent.
shellIssued(op) ==
  /\ directCommand(op)
  /\ peer' = IF Len(frames') > Len(frames)
             THEN [peer EXCEPT !.opFrame[LeastFree(FreeOps)] = Len(frames')]
             ELSE peer

\* TcpSocket.read of shell call o resolves with the data that has arrived:
\* readResponse returns it and shell returns it to its caller.
ShellReadData(o) ==
  /\ peer.inbox # <<>>
  /\ ShellReadDone(o, "response")
  /\ peer' = [peer EXCEPT !.inbox = Tail(@)]

\* TcpSocket.read of shell call o times out with nothing arrived:
\* readResponse returns null.
ShellReadTimeout(o) ==
  /\ peer.inbox = <<>>
  /\ ShellReadDone(o, "null")
  /\ UNCHANGED peer

\* The app is ended and started again: a new manager and a new hook, whose
\* init effect loads the stored list into discoveredDevices; localStorage
\* keeps the stored list and the last-connected id. The connect the init
\* effect schedules for the last device found in the list is a connect of
\* a listed device.
restart ==
  /\ directDevices' = getSavedDevices.list
  /\ tcp' = FALSE
  /\ conn' = [c \in Conns |-> NoConn]
  /\ tsock' = [x \in TcpSocks |-> "free"]
  /\ connections' = [d \in Devices |-> 0]
  /\ mapOrder' = <<>>
  /\ dall' = IdleAll
  /\ call' = [k \in Calls |-> IdleCall]
  /\ ops' = [o \in Ops |-> IdleOp]
  /\ directState' = [isConnected |-> FALSE, device |-> 0, isConnecting |-> FALSE,
                     error |-> NoError]
  /\ connectionRef' = 0
  /\ frames' = <<>>
  /\ UNCHANGED <<lastConnected, saved, savedShape>>

\* ------------------------------------------------- the dispatcher's scan
VARIABLES
  scan            \* the dispatcher's scanNetwork call and its isScanning flag

scanVars == <<scan>>

\* pc: "idle", or "delay" while the call is suspended at its 800 ms
\* delay; saved: the list the call read before the delay.
ScanInit == scan = [pc |-> "idle", saved |-> <<>>, isScanning |-> FALSE]

\* scanNetwork() of the dispatcher up to its await: isScanning is set, the
\* discovered devices are emptied and the stored list is read.
directScanNetwork ==
  /\ scan.pc = "idle"
  /\ scan' = [pc |-> "delay", saved |-> getSavedDevices.list, isScanning |-> TRUE]
  /\ directDevices' = <<>>
  /\ UNCHANGED <<tcp, conn, tsock, connections, mapOrder, dall, call, ops, directState,
                 connectionRef, lastConnected, saved, savedShape, frames>>

\* The delay has passed: the list read before it becomes the discovered
\* devices and isScanning is cleared.
ScanDelayDone ==
  /\ scan.pc = "delay"
  /\ directDevices' = scan.saved
  /\ scan' = [pc |-> "idle", saved |-> <<>>, isScanning |-> FALSE]
  /\ UNCHANGED <<tcp, conn, tsock, connections, mapOrder, dall, call, ops, directState,
                 connectionRef, lastConnected, saved, savedShape, frames>>

\* =====================================================================
\* WIRE PROTOCOL CODEC (src/unnamed/part_005, AdbConnection)
\* =====================================================================
VARIABLES
  codec           \* one createMessage call and the read of its bytes: see CodecInit

codecVars == <<codec>>

\* A byte sequence is a Uint8Array; a text is a sequence of character codes.
\* The typed values readResponse returns (string | null).
JsNull == [type |-> "null"]
JsString(chars) == [type |-> "string", chars |-> chars]

NoFrame == [command |-> 0, arg0 |-> 0, arg1 |-> 0, data |-> <<>>]

CodecInit == codec = [pc |-> "idle", frame |-> NoFrame, message |-> <<>>, response |-> JsNull]

\* The six command constants.
Commands == {A_CNXN, A_OPEN, A_OKAY, A_CLSE, A_WRTE, A_AUTH}

\* ToInt32(0xFFFFFFFF): the right operand of the magic's ^ as the 32-bit
\* signed integer the operator works on.
AllOnes == -1

\* a ^ b on 32-bit signed integers in two's complement, bit by bit.
RECURSIVE BitXor(_, _)
BitXor(a, b) ==
  IF a \in {0, -1} /\ b \in {0, -1}
  THEN IF a = b THEN 0 ELSE -1
  ELSE (((a % 2) + (b % 2)) % 2) + 2 * BitXor(a \div 2, b \div 2)

\* DataView.setUint32(offset, value, true): the four bytes of value modulo
\* 2^32, least significant first (\div rounds down, so a negative value
\* gives the bytes of value + 2^32).
setUint32(value) ==
  <<value % 256, (value \div 256) % 256, (value \div 65536) % 256, (value \div 16777216) % 256>>

\* The checksum loop of createMessage: checksum += data[i] over data[lo..hi].
\* The additions are exact, so the sum is taken by halves to keep the
\* evaluation shallow.
RECURSIVE checksumOf(_, _, _)
checksumOf(data, lo, hi) ==
  IF lo > hi THEN 0
  ELSE IF lo = hi THEN data[lo]
  ELSE LET mid == (lo + hi) \div 2
       IN checksumOf(data, lo, mid) + checksumOf(data, mid + 1, hi)

\* createMessage with a plausible slip: the checksum is written as one byte.
createMessageChecksumByte(command, arg0, arg1, data) ==
  setUint32(command) \o setUint32(arg0) \o setUint32(arg1) \o setUint32(Len(data))
    \o setUint32(checksumOf(data, 1, Len(data)) % 256)
    \o setUint32(BitXor(command, AllOnes))
    \o data

\* AdbConnection.createMessage(command, arg0, arg1, data): a buffer of
\* ADB_HEADER_SIZE + data.length bytes, the six header fields written
\* little-endian at offsets 0, 4, 8, 12, 16, 20, then the data.
createMessage(command, arg0, arg1, data) ==
  setUint32(command) \o setUint32(arg0) \o setUint32(arg1) \o setUint32(Len(data))
    \o setUint32(checksumOf(data, 1, Len(data)))
    \o setUint32(BitXor(command, AllOnes))
    \o data

\* The arguments and payloads createMessage is called with: the values the
\* program passes (protocol version, maximum payload, local ids, 0), the
\* largest positive 32-bit integer, and payloads over the bytes 0, 1 and
\* 255 up to MaxPayloadLen bytes, plus ADB_MAX_PAYLOAD bytes of 1.
ArgValues == {0, 1, ADB_MAX_PAYLOAD, ADB_VERSION, 2147483647}
PayloadBytes == {0, 1, 255}
Payloads ==
  UNION { [1..n -> PayloadBytes] : n \in 0..MaxPayloadLen } \cup {[i \in 1..ADB_MAX_PAYLOAD |-> 1]}

\* A caller (sendConnect, shell) builds a frame.
CreateMessage(command, arg0, arg1, data) ==
  /\ codec.pc = "idle"
  /\ codec' = [pc |-> "built",
               frame |-> [command |-> command, arg0 |-> arg0, arg1 |-> arg1, data |-> data],
               message |-> createMessage(command, arg0, arg1, data),
               response |-> JsNull]

\* readResponse given what TcpSocket.read resolved with: result.result, the
\* text read, as it is.
readResponse(result) == result.result

\* TcpSocket.read resolves with the bytes of the frame just built (a peer
\* that answers with that very frame) and readResponse returns.
ReadResponseDone ==
  /\ codec.pc = "built"
  /\ codec' = [codec EXCEPT !.pc = "read",
                            !.response = readResponse([result |-> JsString(codec.message)])]

\* TcpSocket.read rejects or times out: readResponse catches and returns null.
ReadResponseFail ==
  /\ codec.pc = "built"
  /\ codec' = [codec EXCEPT !.pc = "read", !.response = JsNull]

\* =====================================================================
\* SPECIFICATIONS
\* =====================================================================
\* The variables a step of the bridge hook, or of the wire transport and its
\* dispatcher, leaves alone.
nonBridgeVars == <<wireVars, pageVars, codecVars, replyVars, peerVars, scanVars>>
nonWireVars == <<bridgeVars, pageVars, codecVars, replyVars, peerVars, scanVars>>
nonPageVars == <<wireVars, codecVars, replyVars, peerVars, scanVars>>
nonCodecVars == <<bridgeVars, wireVars, pageVars, replyVars, peerVars, scanVars>>
nonReplyVars == <<wireVars, pageVars, codecVars, peerVars, scanVars>>
nonPeerVars == <<bridgeVars, pageVars, codecVars, replyVars, scanVars>>
nonScanVars == <<bridgeVars, pageVars, codecVars, replyVars, peerVars>>

vars == <<bridgeVars, wireVars, pageVars, codecVars, replyVars, peerVars, scanVars>>

Init == BridgeInit /\ WireInit /\ PageInit /\ CodecInit /\ ReplyInit /\ PeerInit /\ ScanInit

\* The bridge transport; the wire transport is not in use.
Next ==
  \/ (Mount) /\ UNCHANGED nonBridgeVars
  \/ (Unmount) /\ UNCHANGED nonBridgeVars
  \/ (\E s \in Socks : OnOpen(s)) /\ UNCHANGED nonBridgeVars
  \/ (\E s \in Socks : OnError(s)) /\ UNCHANGED nonBridgeVars
  \/ (\E s \in Socks : OnClose(s)) /\ UNCHANGED nonBridgeVars
  \/ (\E h \in Socks : ReconnectTimerFire(h)) /\ UNCHANGED nonBridgeVars
  \/ (\E s \in Socks, m \in Messages : OnMessage(s, m)) /\ UNCHANGED nonBridgeVars
  \/ (Len(cmds) < MaxCmd /\ \E t \in SimpleTypes : SimpleCommand(t)) /\ UNCHANGED nonBridgeVars
  \/ (Len(cmds) < MaxCmd /\ scanNetwork) /\ UNCHANGED nonBridgeVars
  \/ (Len(cmds) < MaxCmd /\ \E d \in BridgeDevices : connect(d)) /\ UNCHANGED nonBridgeVars
  \/ (Len(cmds) < MaxCmd /\ disconnect) /\ UNCHANGED nonBridgeVars
  \/ (Len(cmds) < MaxCmd /\ takeScreenshot) /\ UNCHANGED nonBridgeVars
  \/ (Len(cmds) < MaxCmd /\ wakeOnLan) /\ UNCHANGED nonBridgeVars
  \/ (\E r \in Reqs : ScreenshotTimeout(r)) /\ UNCHANGED nonBridgeVars
  \/ (\E r \in Reqs : WolTimeout(r)) /\ UNCHANGED nonBridgeVars

Spec == Init /\ [][Next]_vars

\* The wire transport and its dispatcher; the bridge hook is not mounted.
WireNext ==
  \/ (initTcpSocket) /\ UNCHANGED nonWireVars
  \/ (directMounted /\ \E d \in Devices : directConnect(d)) /\ UNCHANGED nonWireVars
  \/ (Len(frames) < MaxFrames /\ \E k \in Calls : TcpConnectOk(k))
       /\ UNCHANGED nonWireVars
  \/ (\E k \in Calls : TcpConnectFail(k)) /\ UNCHANGED nonWireVars
  \/ (\E k \in Calls : ConnectSendOk(k)) /\ UNCHANGED nonWireVars
  \/ (\E k \in Calls : ConnectSendFail(k)) /\ UNCHANGED nonWireVars
  \/ (\E k \in Calls, response \in BOOLEAN : ConnectReadDone(k, response))
       /\ UNCHANGED nonWireVars
  \/ (directMounted /\ directDisconnect) /\ UNCHANGED nonWireVars
  \/ (\E k \in Calls : TcpDisconnectDone(k)) /\ UNCHANGED nonWireVars
  \/ (directMounted /\ Len(frames) < MaxFrames
        /\ \E op \in DirectCommands : directCommand(op)) /\ UNCHANGED nonWireVars
  \/ (\E o \in Ops : ShellSendOk(o)) /\ UNCHANGED nonWireVars
  \/ (\E o \in Ops : ShellSendFail(o)) /\ UNCHANGED nonWireVars
  \/ (\E o \in Ops, result \in ShellReadResults : ShellReadDone(o, result))
       /\ UNCHANGED nonWireVars
  \/ (disconnectAll) /\ UNCHANGED nonWireVars
  \/ (DisconnectAllTeardownDone) /\ UNCHANGED nonWireVars

WireSpec == Init /\ [][WireNext]_vars

\* The command stream of one device on the native platform: device 1 is
\* connected and disconnected, key commands are issued, also while earlier
\* round trips are in flight.
KeyCommands == {"sendKey", "tap"}
ShellNext ==
  \/ (initTcpSocket) /\ UNCHANGED nonWireVars
  \/ (directMounted /\ directConnect(1)) /\ UNCHANGED nonWireVars
  \/ (Len(frames) < MaxShellFrames /\ \E k \in Calls : TcpConnectOk(k))
       /\ UNCHANGED nonWireVars
  \/ (\E k \in Calls : TcpConnectFail(k)) /\ UNCHANGED nonWireVars
  \/ (\E k \in Calls : ConnectSendOk(k)) /\ UNCHANGED nonWireVars
  \/ (\E k \in Calls : ConnectSendFail(k)) /\ UNCHANGED nonWireVars
  \/ (\E k \in Calls, response \in BOOLEAN : ConnectReadDone(k, response))
       /\ UNCHANGED nonWireVars
  \/ (directMounted /\ directDisconnect) /\ UNCHANGED nonWireVars
  \/ (\E k \in Calls : TcpDisconnectDone(k)) /\ UNCHANGED nonWireVars
  \/ (directMounted /\ Len(frames) < MaxShellFrames
        /\ \E op \in KeyCommands : directCommand(op)) /\ UNCHANGED nonWireVars
  \/ (\E o \in Ops : ShellSendOk(o)) /\ UNCHANGED nonWireVars
  \/ (\E o \in Ops : ShellSendFail(o)) /\ UNCHANGED nonWireVars
  \/ (\E o \in Ops, result \in ShellReadResults : ShellReadDone(o, result))
       /\ UNCHANGED nonWireVars

ShellSpec == Init /\ [][ShellNext]_vars

\* The device registry and the connections made from it: the stored item
\* is of any shape at the start; devices are added, removed, connected and
\* disconnected, on the web (simulated mode) and on the native platform
\* with devices that answer.
RegistryInit ==
  BridgeInit /\ PageInit /\ CodecInit /\ ReplyInit /\ PeerInit /\ ScanInit
    /\ \E shape \in StorageShapes : WireInitStored(shape)

RegistryNext ==
  \/ (initTcpSocket) /\ UNCHANGED nonWireVars
  \/ (\E d \in Devices, name \in DeviceNames : addDevice(d, name)) /\ UNCHANGED nonWireVars
  \/ (\E d \in Devices : removeDeviceFromList(d)) /\ UNCHANGED nonWireVars
  \/ (\E d \in Devices : directConnect(d)) /\ UNCHANGED nonWireVars
  \/ (Len(frames) < MaxFrames /\ \E k \in Calls : TcpConnectOk(k))
       /\ UNCHANGED nonWireVars
  \/ (\E k \in Calls : ConnectSendOk(k)) /\ UNCHANGED nonWireVars
  \/ (\E k \in Calls : ConnectReadDone(k, TRUE)) /\ UNCHANGED nonWireVars
  \/ (directDisconnect) /\ UNCHANGED nonWireVars
  \/ (\E k \in Calls : TcpDisconnectDone(k)) /\ UNCHANGED nonWireVars

RegistrySpec == RegistryInit /\ [][RegistryNext]_vars

\* The page with its connected-devices list over the bridge hook: the channel
\* opens, devices are selected and connected, the bridge process reports
\* connections, and entries of the list are disconnected.
PageNext ==
  \/ (Mount) /\ UNCHANGED pageVars /\ UNCHANGED nonPageVars
  \/ (\E s \in Socks : OnOpen(s)) /\ UNCHANGED pageVars /\ UNCHANGED nonPageVars
  \/ (\E d \in PageDevices : handleToggleDeviceSelection(d)) /\ UNCHANGED nonPageVars
  \/ (Len(cmds) + Len(selectedDevices) <= MaxPageCmd /\ handleConnectSelected)
       /\ UNCHANGED nonPageVars
  \/ (\E s \in Socks, m \in PageMessages : PageOnMessage(s, m)) /\ UNCHANGED nonPageVars
  \/ (Len(cmds) < MaxPageCmd /\ \E d \in PageDevices : handleDisconnectDevice(d))
       /\ UNCHANGED nonPageVars

PageSpec == Init /\ [][PageNext]_vars

\* Key presses on one device on the native platform: device 1 is connected
\* and disconnected and keys of every name are sent.
KeyNext ==
  \/ (initTcpSocket) /\ UNCHANGED nonWireVars
  \/ (directMounted /\ directConnect(1)) /\ UNCHANGED nonWireVars
  \/ (Len(frames) < MaxInputFrames /\ \E k \in Calls : TcpConnectOk(k))
       /\ UNCHANGED nonWireVars
  \/ (\E k \in Calls : ConnectSendOk(k)) /\ UNCHANGED nonWireVars
  \/ (\E k \in Calls, response \in BOOLEAN : ConnectReadDone(k, response))
       /\ UNCHANGED nonWireVars
  \/ (directMounted /\ directDisconnect) /\ UNCHANGED nonWireVars
  \/ (\E k \in Calls : TcpDisconnectDone(k)) /\ UNCHANGED nonWireVars
  \/ (directMounted /\ Len(frames) < MaxInputFrames
        /\ \E keyCode \in KeyCodes : directSendKey(keyCode)) /\ UNCHANGED nonWireVars
  \/ (\E o \in Ops : ShellSendOk(o)) /\ UNCHANGED nonWireVars
  \/ (\E o \in Ops, result \in ShellReadResults : ShellReadDone(o, result))
       /\ UNCHANGED nonWireVars

KeySpec == Init /\ [][KeyNext]_vars

\* Text entry on one device on the native platform.
TextNext ==
  \/ (initTcpSocket) /\ UNCHANGED nonWireVars
  \/ (directMounted /\ directConnect(1)) /\ UNCHANGED nonWireVars
  \/ (Len(frames) < MaxInputFrames /\ \E k \in Calls : TcpConnectOk(k))
       /\ UNCHANGED nonWireVars
  \/ (\E k \in Calls : ConnectSendOk(k)) /\ UNCHANGED nonWireVars
  \/ (\E k \in Calls, response \in BOOLEAN : ConnectReadDone(k, response))
       /\ UNCHANGED nonWireVars
  \/ (directMounted /\ directDisconnect) /\ UNCHANGED nonWireVars
  \/ (\E k \in Calls : TcpDisconnectDone(k)) /\ UNCHANGED nonWireVars
  \/ (directMounted /\ Len(frames) < MaxInputFrames
        /\ \E text \in Texts : directSendText(text)) /\ UNCHANGED nonWireVars
  \/ (\E o \in Ops : ShellSendOk(o)) /\ UNCHANGED nonWireVars
  \/ (\E o \in Ops, result \in ShellReadResults : ShellReadDone(o, result))
       /\ UNCHANGED nonWireVars

TextSpec == Init /\ [][TextNext]_vars

\* Connecting and disconnecting over the bridge, with the bridge's answers.
LifecycleNext ==
  \/ (Mount) /\ UNCHANGED nonBridgeVars
  \/ (\E s \in Socks : OnOpen(s)) /\ UNCHANGED nonBridgeVars
  \/ (Len(cmds) < MaxLifeCmd /\ \E d \in BridgeDevices : connectSent(d))
       /\ UNCHANGED nonReplyVars
  \/ (Len(cmds) < MaxLifeCmd /\ disconnectSent) /\ UNCHANGED nonReplyVars
  \/ (BridgeReply) /\ UNCHANGED nonReplyVars

LifecycleSpec == Init /\ [][LifecycleNext]_vars

\* Screenshot and wake-on-LAN round trips over the bridge, with the
\* bridge's answers and the requests' timers.
RoundTripNext ==
  \/ (Mount) /\ UNCHANGED nonBridgeVars
  \/ (\E s \in Socks : OnOpen(s)) /\ UNCHANGED nonBridgeVars
  \/ (takeScreenshotSent) /\ UNCHANGED nonReplyVars
  \/ (wakeOnLanSent) /\ UNCHANGED nonReplyVars
  \/ (\E r \in Reqs : ScreenshotTimeout(r)) /\ UNCHANGED nonBridgeVars
  \/ (\E r \in Reqs : WolTimeout(r)) /\ UNCHANGED nonBridgeVars
  \/ (BridgeReply) /\ UNCHANGED nonReplyVars

RoundTripSpec == Init /\ [][RoundTripNext]_vars

\* Shell round trips on the socket of device 1 with the device's answers:
\* the handshake is answered, key commands are issued, reads take what has
\* arrived or time out.
StreamNext ==
  \/ (initTcpSocket) /\ UNCHANGED nonWireVars
  \/ (directMounted /\ directConnect(1)) /\ UNCHANGED nonWireVars
  \/ (Len(frames) < MaxShellFrames /\ \E k \in Calls : TcpConnectOk(k))
       /\ UNCHANGED nonWireVars
  \/ (\E k \in Calls : ConnectSendOk(k)) /\ UNCHANGED nonWireVars
  \/ (DeviceAnswer) /\ UNCHANGED wireVars /\ UNCHANGED nonPeerVars
  \/ (\E k \in Calls : HandshakeReadData(k)) /\ UNCHANGED nonPeerVars
  \/ (directMounted /\ Len(frames) < MaxShellFrames
        /\ \E op \in KeyCommands : shellIssued(op)) /\ UNCHANGED nonPeerVars
  \/ (\E o \in Ops : ShellSendOk(o)) /\ UNCHANGED nonWireVars
  \/ (\E o \in Ops : ShellReadData(o)) /\ UNCHANGED nonPeerVars
  \/ (\E o \in Ops : ShellReadTimeout(o)) /\ UNCHANGED nonPeerVars

StreamSpec == Init /\ [][StreamNext]_vars

\* Scans of the dispatcher while devices are added and removed.
ScanNext ==
  \/ (directScanNetwork) /\ UNCHANGED nonScanVars
  \/ (ScanDelayDone) /\ UNCHANGED nonScanVars
  \/ (\E d \in Devices, name \in DeviceNames : addDevice(d, name)) /\ UNCHANGED nonWireVars
  \/ (\E d \in Devices : removeDeviceFromList(d)) /\ UNCHANGED nonWireVars

ScanSpec == Init /\ [][ScanNext]_vars

\* Removals while connects are in flight, on the native platform with
\* devices that answer: connect is called for a device of the list shown.
Listed(d) == \E i \in 1..Len(directDevices) : directDevices[i].id = Device(d, "").id

RemovalNext ==
  \/ (initTcpSocket) /\ UNCHANGED nonWireVars
  \/ (\E d \in Devices, name \in DeviceNames : addDevice(d, name)) /\ UNCHANGED nonWireVars
  \/ (\E d \in Devices : removeDeviceFromList(d)) /\ UNCHANGED nonWireVars
  \/ (\E d \in Devices : Listed(d) /\ directConnect(d)) /\ UNCHANGED nonWireVars
  \/ (Len(frames) < MaxFrames /\ \E k \in Calls : TcpConnectOk(k))
       /\ UNCHANGED nonWireVars
  \/ (\E k \in Calls : ConnectSendOk(k)) /\ UNCHANGED nonWireVars
  \/ (\E k \in Calls : ConnectReadDone(k, TRUE)) /\ UNCHANGED nonWireVars
  \/ (directDisconnect) /\ UNCHANGED nonWireVars
  \/ (\E k \in Calls : TcpDisconnectDone(k)) /\ UNCHANGED nonWireVars

RemovalSpec == Init /\ [][RemovalNext]_vars

\* The stored state over the life of the app on the native platform:
\* devices are added, removed, connected and disconnected, and the app is
\* restarted at any moment.
PersistNext ==
  \/ (initTcpSocket) /\ UNCHANGED nonWireVars
  \/ (\E d \in Devices : addDevice(d, "")) /\ UNCHANGED nonWireVars
  \/ (\E d \in Devices : removeDeviceFromList(d)) /\ UNCHANGED nonWireVars
  \/ (\E d \in Devices : Listed(d) /\ directConnect(d)) /\ UNCHANGED nonWireVars
  \/ (Len(frames) < MaxFrames /\ \E k \in Calls : TcpConnectOk(k))
       /\ UNCHANGED nonWireVars
  \/ (\E k \in Calls : ConnectSendOk(k)) /\ UNCHANGED nonWireVars
  \/ (\E k \in Calls : ConnectReadDone(k, TRUE)) /\ UNCHANGED nonWireVars
  \/ (directDisconnect) /\ UNCHANGED nonWireVars
  \/ (\E k \in Calls : TcpDisconnectDone(k)) /\ UNCHANGED nonWireVars
  \/ (restart) /\ UNCHANGED nonWireVars

PersistSpec == Init /\ [][PersistNext]_vars

\* Scans and connects on a channel that opens, breaks and is opened again,
\* against a bridge that answers every command it receives.
IndicatorNext ==
  \/ (Mount) /\ UNCHANGED nonBridgeVars
  \/ (\E s \in Socks : OnOpen(s)) /\ UNCHANGED nonBridgeVars
  \/ (\E s \in Socks : OnError(s)) /\ UNCHANGED nonBridgeVars
  \/ (\E s \in Socks : OnClose(s)) /\ UNCHANGED nonBridgeVars
  \/ (\E h \in Socks : ReconnectTimerFire(h)) /\ UNCHANGED nonBridgeVars
  \/ (Len(cmds) < MaxCmd /\ scanNetworkSent) /\ UNCHANGED nonReplyVars
  \/ (Len(cmds) < MaxCmd /\ \E d \in BridgeDevices : connectSent(d)) /\ UNCHANGED nonReplyVars
  \/ (BridgeReply) /\ UNCHANGED nonReplyVars

IndicatorSpec == Init /\ [][IndicatorNext]_vars

\* The event loop runs every armed timer, a channel that is connecting
\* opens, and an answer the bridge owes arrives; the user is free to do
\* nothing.
FairIndicatorSpec ==
  /\ IndicatorSpec
  /\ WF_vars((\E h \in Socks : ReconnectTimerFire(h)) /\ UNCHANGED nonBridgeVars)
  /\ WF_vars((\E s \in Socks : OnOpen(s)) /\ UNCHANGED nonBridgeVars)
  /\ WF_vars((BridgeReply) /\ UNCHANGED nonReplyVars)

\* The codec alone: frames are built from the bounded inputs and read back.
CodecNext ==
  \/ (\E command \in Commands, arg0 \in ArgValues, arg1 \in ArgValues, data \in Payloads :
        CreateMessage(command, arg0, arg1, data)) /\ UNCHANGED nonCodecVars
  \/ (ReadResponseDone) /\ UNCHANGED nonCodecVars
  \/ (ReadResponseFail) /\ UNCHANGED nonCodecVars

CodecSpec == Init /\ [][CodecNext]_vars

\* The event loop runs every armed timer: a reconnect timer that stays armed
\* fires.
FairSpec ==
  Spec /\ WF_vars((\E h \in Socks : ReconnectTimerFire(h)) /\ UNCHANGED nonBridgeVars)

\* =====================================================================
\* CLAIMS
\* =====================================================================
Issued(r) == req[r].kind # "none"

\* ---------------------------------------------------------------- C1
NoResolverTwice == \A r \in Reqs : Len(req[r].results) <= 1

\* A screenshot timer fires in this step while a request holds the slot.
ScreenshotTimerFires ==
  /\ screenshotResolveRef # 0
  /\ \E r \in Reqs : req[r].kind = "screenshot" /\ req[r].timer /\ ~req'[r].timer

LateScreenshotDiscarded ==
  screenshotResolveRef = 0 =>
    \A s \in Socks, m \in ScreenshotMsgs :
      ~ENABLED (OnMessage(s, m) /\ UNCHANGED nonBridgeVars /\ vars' # vars)

C2_OneResultByOwnTimeout ==
  \A r \in Reqs : (Issued(r) /\ ~req[r].timer) => Len(req[r].results) = 1

\* ---------------------------------------------------------------- C6
\* C6: after teardown (phase "unmounted") no new channel is opened and no
\* reconnect timer is armed.
C6_NoReconnectAfterTeardown ==
  [][phase = "unmounted" =>
       /\ \A s \in Socks : sockState[s] = "free" => sockState'[s] = "free"
       /\ rtimers' \subseteq rtimers]_vars

\* ---------------------------------------------------------------- C7
NoChannel == \A s \in Socks : sockState[s] = "free"

\* C7: while the transport is not torn down, every channel close, the close
\* of a failed attempt included, is followed by a new connection attempt;
\* and nothing but the reconnect is retried: whatever is transmitted is the
\* command issued in that very step.
C7_ReconnectLoop ==
  /\ (phase = "mounted" /\ NoChannel)
       ~> (phase = "unmounted" \/ \E s \in Socks : sockState[s] = "connecting")
  /\ [][wire' # wire =>
          /\ Len(cmds') = Len(cmds) + 1
          /\ Len(wire') = Len(wire) + 1
          /\ wire'[Len(wire')].cmd = Len(cmds')]_vars

\* C7 witness: a connection attempt failed and closed, the transport is
\* mounted and a later attempt is under way.
C7_Witness ==
  /\ phase = "mounted"
  /\ state.error = ErrBridgeDown
  /\ reconnectTimeoutRef # 0
  /\ rtimers = {}
  /\ \E s \in Socks : sockState[s] = "connecting"

\* ---------------------------------------------------------------- C8
Transmissions(c) == Cardinality({ i \in 1..Len(wire) : wire[i].cmd = c })

\* C8: a command issued while the channel is not open is never transmitted,
\* then or later, sendCommand returns false and the error state is set; a
\* command issued while the channel is open is transmitted exactly once.
C8_DroppedOrSentOnce ==
  /\ [](\A c \in 1..Len(cmds) :
          /\ Transmissions(c) = (IF cmds[c].open THEN 1 ELSE 0)
          /\ cmds[c].ret = cmds[c].open)
  /\ [][(Len(cmds') = Len(cmds) + 1 /\ ~cmds'[Len(cmds')].open)
          => state'.error = ErrNotConnected]_vars

\* C8 witness: the first command was dropped on a channel that was not open,
\* the channel opened afterwards and the second command was transmitted.
C8_Witness ==
  /\ Len(cmds) = 2
  /\ ~cmds[1].open /\ cmds[2].open
  /\ [c \in 1..Len(wire) |-> wire[c].cmd] = <<2>>
  /\ IsOpen(wsRef)

\* ---------------------------------------------------------------- C3
Active(c) == conn[c].used /\ conn[c].clientId # 0
InConnect(c) ==
  \E k \in Calls : call[k].conn = c /\ call[k].pc \in {"tcpConnect", "send", "read"}

\* C3: at most one connection with an open socket per device id, also with
\* overlapping connect calls; every connection with an open socket is the
\* one the manager tracks for its id (or is still in its connect sequence).
C3_OneTransportPerDevice ==
  /\ \A d \in Devices :
       Cardinality({ c \in Conns : Active(c) /\ conn[c].dev = d }) <= 1
  /\ \A c \in Conns : Active(c) => (connections[conn[c].dev] = c \/ InConnect(c))

\* ---------------------------------------------------------------- C4
\* C4: the manager's map holds only connections whose connect sequence
\* succeeded (connect() returned true).
C4_RegisteredOnlyOnSuccess ==
  \A d \in Devices : connections[d] # 0 => conn[connections[d]].connectResult = "true"

\* ---------------------------------------------------------------- C5
\* Call k ends in this step with the socket not opened, or with no handshake
\* response frame.
ConnectFails(k) ==
  /\ call[k].pc \in {"tcpConnect", "read"}
  /\ call'[k].pc = "idle"
  /\ (call[k].pc = "tcpConnect" \/ ~conn'[call[k].conn].isAuthenticated)

\* C5: a connect whose socket cannot be opened, or that gets no handshake
\* response, ends not connected, not connecting, with an error, and does not
\* record the device as last-connected.
C5_FailedConnectRollsBack ==
  [][\A k \in Calls : ConnectFails(k) =>
       /\ ~directState'.isConnected
       /\ ~directState'.isConnecting
       /\ directState'.error # NoError
       /\ lastConnected' = lastConnected]_vars

\* ---------------------------------------------------------------- C9
FailureIndicators == {"undefined", "null", "false"}

\* C9: every dispatcher command issued while no device is connected returns
\* a failure indicator and hands no frame to a socket.
C9_DisconnectedCommandsFail ==
  ~directState.isConnected =>
    \A op \in DirectCommands :
      /\ directReturn(op) \in FailureIndicators
      /\ ~ENABLED (directCommand(op) /\ UNCHANGED nonWireVars /\ frames' # frames)

\* ---------------------------------------------------------------- C10
\* C10: connect(device) with a connection registered for device.id returns
\* that connection (the dispatcher's reference is that connection), creates
\* no connection, opens no socket, sends no frame and leaves the map as it is.
C10_ConnectExistingIdempotent ==
  \A d \in Devices :
    connections[d] # 0 =>
      /\ ENABLED (directConnect(d) /\ UNCHANGED nonWireVars)
      /\ ~ENABLED (/\ directConnect(d)
                   /\ UNCHANGED nonWireVars
                   /\ \/ connections' # connections
                      \/ frames' # frames
                      \/ tsock' # tsock
                      \/ conn' # conn
                      \/ call' # call
                      \/ connectionRef' # connections[d])

\* C10 witness: in simulated mode (no overlap of connects) device 1 was
\* connected, then device 2, then device 1 again: both are registered with
\* their own connections and the dispatcher holds the one of device 1.
C10_Witness ==
  /\ ~tcp
  /\ saved = <<Device(1, ""), Device(2, "")>>
  /\ lastConnected = 1
  /\ connections[1] # 0 /\ connections[2] # 0 /\ connections[1] # connections[2]
  /\ connectionRef = connections[1]
  /\ directState.isConnected /\ directState.device = 1

\* ---------------------------------------------------------------- C11
\* A step of AdbConnectionManager.disconnect(d): the call itself, made by
\* the dispatcher's disconnect for state.device, or its continuation after
\* `await connection.disconnect()`.
ManagerDisconnectStarts(d) == directDisconnect /\ directState.device = d
ManagerDisconnectEnds(d) == \E k \in Calls : TcpDisconnectDone(k) /\ call[k].dev = d

\* The map entry, the connection object (clientId, localId) and the socket
\* of every device other than d are the same after the step.
OtherDevicesUntouched(d) ==
  \A e \in Devices \ {d} :
    /\ connections'[e] = connections[e]
    /\ connections[e] # 0 =>
         /\ conn'[connections[e]] = conn[connections[e]]
         /\ conn[connections[e]].clientId # 0 =>
              tsock'[conn[connections[e]].clientId] = tsock[conn[connections[e]].clientId]

C12_DisconnectAllLeavesNothing ==
  /\ [](dall.pc = "done" =>
          /\ \A d \in Devices : connections[d] = 0
          /\ \A c \in Conns : ~Active(c))
  /\ [][(dall.pc # "done" /\ dall'.pc = "done") =>
          \A d \in Devices : connections[d] # 0 => conn'[connections[d]].clientId = 0]_vars

\* ---------------------------------------------------------------- C13
\* How many of isConnected, isConnecting and error != null hold in a
\* ConnectionState.
StateFlags(st) ==
  (IF st.isConnected THEN 1 ELSE 0) + (IF st.isConnecting THEN 1 ELSE 0)
    + (IF st.error # NoError THEN 1 ELSE 0)

\* C13: the connection state of either hook is one of Disconnected,
\* Connecting, Connected, Failed: at most one of isConnected, isConnecting
\* and error != null holds in it.
C13_ExactlyOneState == StateFlags(state) <= 1 /\ StateFlags(directState) <= 1

\* ---------------------------------------------------------------- C14
\* The pending slot of the kind of request r.
SlotOf(r) == IF req[r].kind = "screenshot" THEN screenshotResolveRef ELSE wolResolveRef

\* The timer that request r armed fires in this step.
OwnTimerFires(r) == req[r].timer /\ ~req'[r].timer

\* Request r is issued in this step with the channel open.
IssuedNow(r, kind) == req[r].kind = "none" /\ req'[r].kind = kind /\ IsOpen(wsRef)

\* Slot content r is nothing, or a request of the slot's kind with no result.
SlotHoldsPending(r, kind) == r # 0 => (req[r].kind = kind /\ req[r].results = <<>>)

\* C14: each pending slot is empty or holds one resolver, of a request of
\* its kind that has no result yet; a request issued while another of its
\* kind is outstanding takes the slot (last writer wins); and the resolver of
\* a request that is not in the slot is invoked in no step but the firing of
\* its own timer: by no response, error message or other request's timer.
C14_SlotLastWriterWins ==
  /\ [](SlotHoldsPending(screenshotResolveRef, "screenshot")
         /\ SlotHoldsPending(wolResolveRef, "wol"))
  /\ [][\A r \in Reqs :
          /\ IssuedNow(r, "screenshot") => screenshotResolveRef' = r
          /\ IssuedNow(r, "wol") => wolResolveRef' = r
          /\ (Issued(r) /\ SlotOf(r) # r /\ req'[r].results # req[r].results)
               => OwnTimerFires(r)]_vars

\* C14 witness: a screenshot request was superseded by a second one; the
\* second got the response, the first one's timer has fired and its
\* resolver was invoked by nothing.
C14_Witness ==
  \E r \in Reqs, q \in Reqs :
    /\ r < q
    /\ req[r].kind = "screenshot" /\ req[q].kind = "screenshot"
    /\ req[r].results = <<>> /\ ~req[r].timer
    /\ Len(req[q].results) = 1 /\ req[q].results[1].by = "response"

\* ---------------------------------------------------------------- C15
\* C15: a timeout failure reaches a request only when that request's own
\* window has expired: a request with a result delivered by a timer has had
\* its own timer fire.
C15_TimeoutOnlyAfterOwnWindow ==
  \A r \in Reqs :
    (\E i \in 1..Len(req[r].results) : req[r].results[i].by = "timeout") => ~req[r].timer

\* ---------------------------------------------------------------- C16
\* The frame shell hands to TcpSocket.send for command op on the
\* dispatcher's connection.
OpenFrame(op) ==
  [sock |-> conn[connectionRef].clientId, command |-> "OPEN",
   arg0 |-> conn[connectionRef].localId, arg1 |-> 0, payload |-> shellLine(op)]

\* Frames i < j were sent by one connection: same socket, and no CNXN frame
\* (the first frame of a new connection) on that socket from i + 1 to j.
SameConnection(i, j) ==
  /\ frames[i].sock = frames[j].sock
  /\ \A m \in (i + 1)..j : ~(frames[m].sock = frames[i].sock /\ frames[m].command = "CNXN")

\* C16: a key command issued on the connected device puts its OPEN frame,
\* carrying its shell command and the next local id, at the end of the
\* frames handed to the transport in the very step it is issued, whatever
\* round trips are still in flight; so the frames of one connection are in
\* issuance order, with strictly increasing local stream ids.
C16_FramesInIssuanceOrder ==
  /\ [][\A op \in KeyCommands :
          (directCommand(op) /\ directGuard /\ conn[connectionRef].clientId # 0) =>
            /\ frames' = Append(frames, OpenFrame(op))
            /\ conn'[connectionRef].localId = conn[connectionRef].localId + 1]_vars
  /\ [](\A i \in 1..Len(frames), j \in 1..Len(frames) :
          (/\ i < j
           /\ frames[i].command = "OPEN" /\ frames[j].command = "OPEN"
           /\ SameConnection(i, j)) => frames[i].arg0 < frames[j].arg0)

\* C16 witness: two key commands with different codes were issued one after
\* the other, the second while the round trip of the first was in flight.
C16_Witness ==
  /\ Len(frames) = 3
  /\ frames[2].command = "OPEN" /\ frames[2].payload = "input keyevent 3"
  /\ frames[2].arg0 = 1
  /\ frames[3].command = "OPEN" /\ frames[3].payload = "input keyevent 23"
  /\ frames[3].arg0 = 2
  /\ frames[2].sock = frames[3].sock
  /\ \A o \in Ops : ops[o].pc \in {"send", "read"}

\* ---------------------------------------------------------------- C20
\* A shell round trip has ended with null and the dispatcher's connection
\* has a socket.
AfterFailedRoundTrip ==
  /\ \E o \in Ops : ops[o].pc = "idle" /\ ops[o].ret = "null"
  /\ directMounted /\ directGuard
  /\ conn[connectionRef].clientId # 0

\* C20: a shell round trip whose read ends gives its caller the data or
\* null and nothing else (nothing is raised), and leaves connection objects,
\* sockets, the map and the dispatcher's reference and state as they are;
\* after a round trip that ended with null a command on the connection
\* still puts its frame on the socket.
C20_ReadTimeoutKeepsConnection ==
  /\ [][\A o \in Ops :
          (ops[o].pc = "read" /\ ops'[o].pc = "idle") =>
            /\ ops'[o].ret \in ShellReadResults
            /\ UNCHANGED <<conn, tsock, connections, connectionRef, directState>>]_vars
  /\ [](AfterFailedRoundTrip =>
          ENABLED (/\ directCommand("sendKey")
                   /\ UNCHANGED nonWireVars
                   /\ frames' = Append(frames, OpenFrame("sendKey"))))

\* C20 witness: the round trip of the first command after the handshake
\* has ended with null; the connection is registered and its socket is open.
C20_Witness ==
  /\ AfterFailedRoundTrip
  /\ connections[1] = connectionRef
  /\ tsock[conn[connectionRef].clientId] = "open"
  /\ Len(frames) = 2 /\ frames[2].command = "OPEN"
  /\ \A o \in Ops : ops[o].pc = "idle"

\* ---------------------------------------------------------------- C17
\* The ids of the devices of a list.
IdsOf(list) == { list[i].id : i \in 1..Len(list) }

\* C17: the stored list has one entry per id at most and every entry's id
\* is its ip:port, whatever was added, removed and connected; adding a
\* device whose id is in the list replaces that entry where it is and
\* changes no other entry, adding another one appends it.
C17_OneEntryPerId ==
  /\ [](/\ Cardinality(IdsOf(saved)) = Len(saved)
         /\ \A i \in 1..Len(saved) : saved[i].id = MakeId(saved[i].ip, saved[i].port))
  /\ [][\A d \in Devices, name \in DeviceNames :
          (addDevice(d, name) /\ ~registryThrows) =>
            LET old == getSavedDevices.list
                new == Device(d, name) IN
              IF new.id \in IdsOf(old)
              THEN /\ Len(saved') = Len(old)
                   /\ \A i \in 1..Len(old) :
                        saved'[i] = IF old[i].id = new.id THEN new ELSE old[i]
              ELSE saved' = Append(old, new)]_vars

\* C17 witness: device 1 was added, then device 2, and device 1 was added
\* again under another name: it has one entry, still the first.
C17_Witness ==
  /\ saved = <<Device(1, "TV"), Device(2, "")>>
  /\ directDevices = saved
  /\ savedShape = "list"

\* ---------------------------------------------------------------- C18
\* C18: with a stored item that is missing, unparseable or no list of
\* devices, getSavedDevices returns the empty list and neither saveDevice
\* nor removeDevice throws.
C18_CorruptRegistryIsEmpty ==
  savedShape # "list" =>
    /\ getSavedDevices = [isList |-> TRUE, list |-> <<>>]
    /\ ~registryThrows

\* ---------------------------------------------------------------- C19
\* C19: removing a device takes it out of the stored list. If it is the
\* connected device, disconnect runs: at its end (at once, or when the
\* socket teardown is over) the state is not connected, the manager has no
\* connection for the id, the connection has no socket and the
\* last-connected pointer is cleared. If it is not the connected device, the
\* connection state, the map, the connections and the sockets stay as they
\* are. (With a stored value on which the registry throws no device is ever
\* the connected one.)
C19_RemoveDisconnectsConnected ==
  /\ [](registryThrows => directState.device = 0)
  /\ [][\A d \in Devices :
          /\ (removeDeviceFromList(d) /\ ~registryThrows) =>
               /\ Device(d, "").id \notin IdsOf(saved')
               /\ directState.device # d =>
                    UNCHANGED <<directState, connections, conn, tsock, connectionRef,
                                lastConnected>>
               /\ (directState.device = d /\ call' = call) =>
                    /\ ~directState'.isConnected
                    /\ connections'[d] = 0
                    /\ lastConnected' = 0
               /\ (directState.device = d /\ call' # call) =>
                    \E k \in Calls : /\ call'[k].pc = "tcpDisconnect"
                                     /\ call'[k].dev = d
                                     /\ call'[k].conn = connections[d]
          /\ \A k \in Calls :
               (TcpDisconnectDone(k) /\ call[k].dev = d) =>
                 /\ ~directState'.isConnected
                 /\ connections'[d] = 0
                 /\ conn'[call[k].conn].clientId = 0
                 /\ lastConnected' = 0]_vars

\* C19 witness: device d was connected over a socket and then removed: it
\* is in no list, its connection has no socket and is not in the map, the
\* state is not connected and no device is last-connected.
C19_Witness ==
  /\ tcp
  /\ \E d \in Devices, c \in Conns :
       /\ conn[c].used /\ conn[c].dev = d /\ conn[c].connectResult = "true"
       /\ conn[c].clientId = 0
       /\ connections[d] = 0
       /\ Device(d, "").id \notin IdsOf(saved)
       /\ savedShape = "list"
  /\ ~directState.isConnected /\ directState.device = 0
  /\ lastConnected = 0
  /\ \A k \in Calls : call[k] = IdleCall

\* ---------------------------------------------------------------- C21
\* The channels that are open or being opened.
LiveChannels == { s \in Socks : sockState[s] \in {"connecting", "open"} }

\* A connection attempt (connectWebSocket, as the reconnect timer runs it)
\* that creates a channel or replaces the reference.
AttemptCreatesChannel ==
  /\ connectWebSocket
  /\ <<wsRef, sockState>>' # <<wsRef, sockState>>
  /\ UNCHANGED <<phase, rtimers, reconnectTimeoutRef, state, isScanning, discoveredDevices,
                 apps, screenshotResolveRef, wolResolveRef, req, cmds, wire>>
  /\ UNCHANGED nonBridgeVars

C22_DisconnectOnlyChosenDevice ==
  [][\A x \in PageDevices :
       (handleDisconnectDevice(x) /\ Len(connectedDevices) >= 2) =>
         /\ state'.device # x
         /\ \A y \in PageDevices \ {x} :
              /\ InList(connectedDevices, y) => InList(connectedDevices', y)
              /\ (state.isConnected /\ state.device = y) =>
                   (state'.isConnected /\ state'.device = y)]_vars

\* ---------------------------------------------------------------- C23
\* The unsigned little-endian value at a byte offset of a message, for fields
\* below 2^31.
U32At(m, off) == m[off + 1] + 256 * m[off + 2] + 65536 * m[off + 3] + 16777216 * m[off + 4]

\* The sum of the bytes of a payload over 0, 1 and 255, by counting.
ByteCount(data, b) == Cardinality({ i \in 1..Len(data) : data[i] = b })
PayloadSum(data) == ByteCount(data, 1) + 255 * ByteCount(data, 255)

\* C23: createMessage(command, arg0, arg1, payload) gives 24 + len(payload)
\* bytes whose little-endian header fields are command, arg0, arg1,
\* len(payload), the sum of the payload bytes (0 for the empty payload, 255
\* for the payload [0xFF], 4096 for 4096 bytes of 0x01) and the magic
\* 0xFFFFFFFF - command (command XOR 0xFFFFFFFF as an unsigned value, given
\* here by its 16-bit halves), for each of the six commands.
C23_FrameLayout ==
  codec.pc # "idle" =>
    LET f == codec.frame
        m == codec.message
    IN /\ f.command \in Commands
       /\ Len(m) = ADB_HEADER_SIZE + Len(f.data)
       /\ U32At(m, 0) = f.command
       /\ U32At(m, 4) = f.arg0
       /\ U32At(m, 8) = f.arg1
       /\ U32At(m, 12) = Len(f.data)
       /\ U32At(m, 16) = PayloadSum(f.data)
       /\ f.data = <<>> => U32At(m, 16) = 0
       /\ f.data = <<255>> => U32At(m, 16) = 255
       /\ (Len(f.data) = 4096 /\ \A i \in 1..4096 : f.data[i] = 1) => U32At(m, 16) = 4096
       /\ m[21] + 256 * m[22] = 65535 - (f.command % 65536)
       /\ m[23] + 256 * m[24] = 65535 - (f.command \div 65536)

\* A WRITE frame of 4096 bytes of 0x01 was built: its checksum field holds 4096.
C23_Witness ==
  /\ codec.pc = "built"
  /\ codec.frame.command = A_WRTE
  /\ Len(codec.frame.data) = ADB_MAX_PAYLOAD
  /\ SubSeq(codec.message, 17, 20) = <<0, 16, 0, 0>>
  /\ Len(codec.message) = 4120

\* ---------------------------------------------------------------- C26
\* A frame as a value with the fields command, arg0, arg1 and payload.
JsFrame(f) ==
  [type |-> "object", command |-> f.command, arg0 |-> f.arg0, arg1 |-> f.arg1,
   payload |-> f.data]

\* C26: the bytes of an encoded frame, read by the path that reads
\* responses, come back as the same frame: the same command, arguments and
\* payload, also for an empty payload.
C26_RoundTrip ==
  (codec.pc = "read" /\ codec.response # JsNull) => codec.response = JsFrame(codec.frame)

\* ---------------------------------------------------------------- C24
\* The Android key codes (android.view.KeyEvent) of the key names.
AndroidKeyCode ==
  [KEYCODE_DPAD_UP |-> 19, KEYCODE_DPAD_DOWN |-> 20, KEYCODE_DPAD_LEFT |-> 21,
   KEYCODE_DPAD_RIGHT |-> 22, KEYCODE_DPAD_CENTER |-> 23, KEYCODE_BACK |-> 4,
   KEYCODE_HOME |-> 3, KEYCODE_MENU |-> 82, KEYCODE_VOLUME_UP |-> 24,
   KEYCODE_VOLUME_DOWN |-> 25, KEYCODE_VOLUME_MUTE |-> 164, KEYCODE_POWER |-> 26,
   KEYCODE_MEDIA_PLAY_PAUSE |-> 85, KEYCODE_MEDIA_STOP |-> 86, KEYCODE_MEDIA_NEXT |-> 87,
   KEYCODE_MEDIA_PREVIOUS |-> 88, KEYCODE_MEDIA_REWIND |-> 89,
   KEYCODE_MEDIA_FAST_FORWARD |-> 90, KEYCODE_CHANNEL_UP |-> 166,
   KEYCODE_CHANNEL_DOWN |-> 167, KEYCODE_TV_INPUT |-> 178, KEYCODE_SETTINGS |-> 176,
   KEYCODE_APP_SWITCH |-> 187]

\* The dispatcher is connected and its connection has a socket.
ConnectedWire == directGuard /\ conn[connectionRef].clientId # 0

\* C24: for every key name of the KeyCode set, sendKey(name) on a connected
\* wire transport hands exactly one frame to the socket, the OPEN of the
\* shell command "input keyevent <n>" with n the Android key code of the
\* name (3 for KEYCODE_HOME), and n is never 0.
C24_SendKeyIssuesKeyevent ==
  [][\A name \in KeyCodes :
       (directSendKey(name) /\ ConnectedWire) =>
         /\ Len(frames') = Len(frames) + 1
         /\ SubSeq(frames', 1, Len(frames)) = frames
         /\ frames'[Len(frames')].command = "OPEN"
         /\ frames'[Len(frames')].payload = "input keyevent " \o ToString(AndroidKeyCode[name])
         /\ AndroidKeyCode[name] # 0
         /\ name = "KEYCODE_HOME" => frames'[Len(frames')].payload = "input keyevent 3"]_vars

\* KEYCODE_TV_INPUT was sent on the connected transport of device 1.
C24_Witness ==
  /\ directState.isConnected
  /\ Len(frames) = 2
  /\ frames[1].command = "CNXN"
  /\ frames[2].command = "OPEN"
  /\ frames[2].payload = "input keyevent 178"

\* ---------------------------------------------------------------- C25
\* What one character of the text becomes: a backslash, double quote, dollar
\* sign or backtick gets one backslash in front, a space becomes %s, every
\* other character stays.
EscapedChar(ch) ==
  IF ch \in {Ch.backslash, Ch.quote, Ch.dollar, Ch.backtick} THEN <<Ch.backslash, ch>>
  ELSE IF ch = Ch.space THEN <<Ch.percent, Ch.s>>
  ELSE <<ch>>

RECURSIVE EscapedText(_)
EscapedText(text) ==
  IF text = <<>> THEN <<>> ELSE EscapedChar(Head(text)) \o EscapedText(Tail(text))

\* The text `input text "hello%sworld"`.
HelloWorldLine ==
  <<105, 110, 112, 117, 116, 32, 116, 101, 120, 116, 32, 34,
    104, 101, 108, 108, 111, 37, 115, 119, 111, 114, 108, 100, 34>>

\* C25: sendText(text) on a connected wire transport issues the shell
\* command `input text "<escaped>"`, where every backslash, double quote,
\* dollar sign and backtick of the text has exactly one backslash in front,
\* every space is %s and every other character is unchanged; "hello world"
\* gives `input text "hello%sworld"`.
C25_SendTextEscapes ==
  [][\A text \in Texts :
       (directSendText(text) /\ ConnectedWire) =>
         /\ Len(frames') = Len(frames) + 1
         /\ frames'[Len(frames')].command = "OPEN"
         /\ frames'[Len(frames')].payload
              = <<105, 110, 112, 117, 116, 32, 116, 101, 120, 116, 32, 34>>
                  \o EscapedText(text) \o <<34>>
         /\ text = HelloWorld => frames'[Len(frames')].payload = HelloWorldLine]_vars

\* The text \" (a backslash, then a double quote) was sent on the connected
\* transport: the command line holds \\\" between its quotes.
C25_Witness ==
  /\ directState.isConnected
  /\ Len(frames) = 2
  /\ frames[2].command = "OPEN"
  /\ frames[2].payload
       = <<105, 110, 112, 117, 116, 32, 116, 101, 120, 116, 32, 34, 92, 92, 92, 34, 34>>

\* ---------------------------------------------------------------- C27
\* The resolver of request r was invoked once more, with value v, by the
\* error case.
FailedByError(r, v) ==
  req'[r] = [req[r] EXCEPT !.results = Append(@, [value |-> v, by |-> "error"])]

\* C27: an inbound error message resolves the pending screenshot request
\* with null and the pending wake-on-LAN request with false, empties both
\* slots, sets the error text and clears isConnecting; no other request is
\* resolved and isConnected, device and the channel stay as they are.
C27_ErrorFailsPending ==
  [][\A s \in Socks :
       OnMessage(s, [type |-> "error"]) =>
         /\ screenshotResolveRef' = 0
         /\ wolResolveRef' = 0
         /\ screenshotResolveRef # 0 => FailedByError(screenshotResolveRef, "null")
         /\ wolResolveRef # 0 => FailedByError(wolResolveRef, "false")
         /\ \A r \in Reqs \ {screenshotResolveRef, wolResolveRef} : req'[r] = req[r]
         /\ state'.error = ErrServer
         /\ ~state'.isConnecting
         /\ state'.isConnected = state.isConnected
         /\ state'.device = state.device
         /\ wsRef' = wsRef
         /\ sockState' = sockState
         /\ rtimers' = rtimers
         /\ reconnectTimeoutRef' = reconnectTimeoutRef]_vars

\* While a device was connected a screenshot and a wake-on-LAN request were
\* pending; an error message failed both and the device is still connected
\* over the open channel.
C27_Witness ==
  \E r \in Reqs, q \in Reqs :
    /\ req[r].kind = "screenshot" /\ req[r].results = <<[value |-> "null", by |-> "error"]>>
    /\ req[q].kind = "wol" /\ req[q].results = <<[value |-> "false", by |-> "error"]>>
    /\ screenshotResolveRef = 0 /\ wolResolveRef = 0
    /\ state.isConnected /\ state.device # 0 /\ state.error = ErrServer
    /\ IsOpen(wsRef)

\* ---------------------------------------------------------------- C28
\* The inbound frames that are no JSON text or carry no known type.
BadMessages == { [type |-> t] : t \in {"unparseable", "unknown"} }

\* C28: a message that cannot be parsed or has an unknown type is handled
\* without any change: connection state, discovered devices, apps, both
\* slots, the channel and the reconnect timers are as before, and every
\* message, of any kind, is still handled on the open channel.
C28_BadMessageDiscarded ==
  \A s \in Socks :
    /\ \A m \in BadMessages :
         ~ENABLED (OnMessage(s, m) /\ UNCHANGED nonBridgeVars /\ vars' # vars)
    /\ sockState[s] = "open" =>
         \A m \in Messages : ENABLED (OnMessage(s, m) /\ UNCHANGED nonBridgeVars)

\* A device is connected over the open channel and both slots hold a
\* request: the state in which a bad message is discarded.
C28_Witness ==
  /\ IsOpen(wsRef)
  /\ state.isConnected
  /\ screenshotResolveRef # 0
  /\ wolResolveRef # 0
  /\ \A m \in BadMessages : ENABLED (OnMessage(wsRef, m) /\ UNCHANGED nonBridgeVars)

\* ---------------------------------------------------------------- C29
\* A frame was handed to the socket in this step.
FrameSent == Len(frames') = Len(frames) + 1
LastFrame == frames'[Len(frames')]

\* C29: the first frame on a newly opened socket is CONNECT with the
\* protocol version 0x01000000 and the maximum payload 4096; one response
\* read follows it, after which the connect call ends; and an OPEN frame is
\* sent on a socket only when the handshake response of its connection has
\* been received.
C29_HandshakeBeforeOpen ==
  [][/\ \A k \in Calls :
          TcpConnectOk(k) =>
            /\ FrameSent
            /\ LastFrame.command = "CNXN"
            /\ LastFrame.arg0 = 16777216 /\ LastFrame.arg1 = 4096
            /\ tsock[LastFrame.sock] # "open" /\ tsock'[LastFrame.sock] = "open"
     /\ \A k \in Calls, response \in BOOLEAN :
          ConnectReadDone(k, response) => call'[k].pc = "idle"
     /\ (FrameSent /\ LastFrame.command = "OPEN") =>
          \E c \in Conns : conn[c].clientId = LastFrame.sock /\ conn[c].isAuthenticated]_vars

\* ---------------------------------------------------------------- C30
\* Every command issued went out, and the last one is a disconnect: no
\* connect has been called since disconnect().
DisconnectCalledLast ==
  /\ wire # <<>>
  /\ Len(cmds) = Len(wire)
  /\ wire[Len(wire)].type = "disconnect"

\* C30: after disconnect() the state stays not connected until connect() is
\* called again, whatever answers to earlier commands arrive.
C30_StaysDisconnected == DisconnectCalledLast => ~state.isConnected

\* ---------------------------------------------------------------- C31
\* C31: an answer the bridge made for one screenshot or wake-on-LAN request
\* is delivered to that request only: when the arrival of an answer invokes
\* the resolver of a request, the answer is the one made for that request.
C31_AnswerReachesOwnRequest ==
  [][\A r \in Reqs :
       (BridgeReply /\ Len(req'[r].results) > Len(req[r].results)) =>
         Head(owed).req = r]_vars

\* ---------------------------------------------------------------- C32
\* Shell call o is the only one in flight.
OnlyCallInFlight(o) == \A q \in Ops \ {o} : ops[q].pc = "idle"

\* C32: the result shell returns is the device's response to the OPEN frame
\* of that call: a read that ends with data has taken the response to the
\* frame its own call sent. It is stated for a call that is alone in flight,
\* so that the data can only be late, not taken by an overlapping call.
C32_ShellGetsOwnResponse ==
  [][\A o \in Ops :
       (ShellReadData(o) /\ OnlyCallInFlight(o)) => Head(peer.inbox) = peer.opFrame[o]]_vars

\* ---------------------------------------------------------------- C33
\* No connect or disconnect of the dispatcher is suspended at an await.
NoCallInFlight == \A k \in Calls : call[k].pc = "idle"

\* C33: whenever the dispatcher reports not connected and no call is in
\* flight, the connection manager holds no registered connection and no
\* socket is open.
C33_NotConnectedNothingRegistered ==
  (directMounted /\ ~directState.isConnected /\ NoCallInFlight) =>
    /\ \A d \in Devices : connections[d] = 0
    /\ \A x \in TcpSocks : tsock[x] # "open"

\* ---------------------------------------------------------------- C34
\* C34: whenever the mounted bridge hook reports connected, its channel is
\* open: the loss of the channel does not leave the state connected.
C34_ConnectedMeansUsable ==
  (phase = "mounted" /\ state.isConnected) => IsOpen(wsRef)

\* ---------------------------------------------------------------- C35
\* C35: when scanNetwork completes, the discovered devices are the stored
\* device list of that moment.
C35_ScanLeavesStoredList ==
  [][ScanDelayDone => directDevices' = saved']_vars

\* ---------------------------------------------------------------- C36
\* C36: a device that is not in the stored list enters it by addDevice for
\* that device only; a connect that was in flight when the device was
\* removed does not bring it back.
Stored(d) == \E i \in 1..Len(saved) : saved[i].id = Device(d, "").id

C36_RemovedStaysAbsent ==
  [][\A d \in Devices :
       (~Stored(d) /\ ~(\E name \in DeviceNames : addDevice(d, name))) => ~Stored(d)']_vars

\* ---------------------------------------------------------------- C37
\* C37: a stored last-connected id is the id of a device of the stored list.
C37_LastConnectedIsStored == lastConnected # 0 => Stored(lastConnected)

\* ---------------------------------------------------------------- C38
\* C38: a connect or a scan that was dropped because the channel was not
\* open does not keep its indicator set: with no answer to it owed,
\* isConnecting, respectively isScanning, becomes false again.
NoAnswerOwed(type) == \A i \in 1..Len(owed) : owed[i].type # type

C38_IndicatorsClear ==
  /\ (state.isConnecting /\ NoAnswerOwed("connected")) ~> ~state.isConnecting
  /\ (isScanning /\ NoAnswerOwed("scan_result")) ~> ~isScanning
====
